---- MODULE Spec2Model ----
(***************************************************************************)
(* The tree-walking evaluator (EvalVisitor) of the interpreter, as a state *)
(* machine.  The C++ call stack of Visit handlers is the variable `stack`: *)
(* one frame per handler that is running, holding the node it visits and   *)
(* the handler's position (pc) and locals.  One action per Visit handler;  *)
(* a step of an action runs the handler from where it stands up to its     *)
(* next child->Calculate call, the back edge of its loop, or its return.    *)
(* Numbers are the integers (doubles with integral values).                *)
(* A string is a sequence of one-character strings.                        *)
(***************************************************************************)
EXTENDS Integers, Sequences, FiniteSets

VARIABLES
    ast,              \* the RootNode interpret() evaluates
    stack,            \* the running Visit handlers, innermost last
    result_,          \* EvalVisitor::result_
    scopes_,          \* EvalVisitor::scopes_
    function_names_,  \* EvalVisitor::function_names_
    control_flow_,    \* EvalVisitor::control_flow_
    out_,             \* the characters written to the output stream
    heap,             \* the List objects; a value of kind List is an address
    status,           \* "parsing", "running", "done", "error" (exception
                      \* caught), "crashed"
    what,             \* e.what() of the exception interpret() caught
    code,             \* the tokens of the text interpret() has read
    lexer             \* a Lexer on the characters of a text

vars == <<ast, stack, result_, scopes_, function_names_, control_flow_,
          out_, heap, status, what, code, lexer>>

\* The largest number a loop of the sample programs counts to.
MaxIter == 2

(***************************************************************************)
(* Runtime values: std::variant<monostate, double, StringPtr, FunctionPtr, *)
(* ListPtr>.  A function value is the FunctionDefinition it points to      *)
(* (id is its address); a list value is the address of a List in heap.     *)
(***************************************************************************)
NilV == [k |-> "Nil"]
NumV(n) == [k |-> "Num", n |-> n]
\* A StringPtr: the std::string it points to is heap[ptr], its characters.
StrV(ptr) == [k |-> "Str", ptr |-> ptr]
FunV(f) == [k |-> "Fun", f |-> f]
ListV(p) == [k |-> "List", ptr |-> p]

HoldsNumber(v) == v.k = "Num"
HoldsString(v) == v.k = "Str"
HoldsList(v) == v.k = "List"
HoldsFunction(v) == v.k = "Fun"

(***************************************************************************)
(* AST nodes, as the parser builds them.                                   *)
(***************************************************************************)
NumberLiteralNode(v) == [type |-> "NumberLiteralNode", value |-> v]
StringLiteralNode(s) == [type |-> "StringLiteralNode", value |-> s]
NilLiteralNode == [type |-> "NilLiteralNode"]
ListLiteralNode(es) == [type |-> "ListLiteralNode", elements |-> es]
VariableNode(n) == [type |-> "VariableNode", name |-> n]
BinaryOperationNode(op, l, r) ==
    [type |-> "BinaryOperationNode", operation |-> op, lhs |-> l, rhs |-> r]
UnaryOperationNode(op, a) ==
    [type |-> "UnaryOperationNode", operation |-> op, arg |-> a]
FunctionDefinition(id, names, body) ==
    [id |-> id, arg_names |-> names, body |-> body]
FunctionImplementationNode(fd) ==
    [type |-> "FunctionImplementationNode", function |-> fd]
IfNode(cond, then, else) ==
    [type |-> "IfNode", condition |-> cond, then_statements |-> then,
     else_statements |-> else]
WhileNode(cond, body) ==
    [type |-> "WhileNode", condition |-> cond, statements |-> body]
ForNode(n, seq, body) ==
    [type |-> "ForNode", iterable_name |-> n, sequence |-> seq,
     statements |-> body]
BreakNode == [type |-> "BreakNode"]
ContinueNode == [type |-> "ContinueNode"]
ReturnNode(e) == [type |-> "ReturnNode", value |-> e]
FunctionCallNode(n, args) ==
    [type |-> "FunctionCallNode", function_name |-> n, args |-> args]
UnnamedFunctionCallNode(fn, args) ==
    [type |-> "UnnamedFunctionCallNode", function |-> fn, args |-> args]
GlobalFunctionNode(n, args) ==
    [type |-> "GlobalFunctionNode", name |-> n, args |-> args]
RootNode(stmts) == [type |-> "RootNode", statements |-> stmts]

(***************************************************************************)
(* The parser.  Its input is the sequence of tokens Lexer::GetNextToken    *)
(* hands out; a token is its TokenType and its value.  The parser's state  *)
(* is a record: the tokens (code), the lexer's position (at), the what()   *)
(* of the exception thrown ("" while none is), and the value the last call *)
(* returned (node for a tree, list for a vector).                          *)
(***************************************************************************)
kKeyWords ==
    {<<"true", "kTrue">>, <<"false", "kFalse">>, <<"nil", "kNil">>,
     <<"while", "kWhile">>, <<"for", "kFor">>, <<"function", "kFunction">>,
     <<"end", "kEnd">>, <<"break", "kBreak">>, <<"continue", "kContinue">>,
     <<"return", "kReturn">>, <<"if", "kIf">>, <<"else", "kElse">>,
     <<"in", "kIn">>, <<"then", "kThen">>, <<"elseif", "kElseIf">>,
     <<"and", "kLogicalAnd">>, <<"or", "kLogicalOr">>,
     <<"not", "kLogicalNot">>}

kDelimiters ==
    {<<",", "kComma">>, <<":", "kColon">>, <<"(", "kLParen">>,
     <<")", "kRParen">>, <<"[", "kLBracket">>, <<"]", "kRBracket">>}

kOperators ==
    {<<"==", "kEqual">>, <<">=", "kGreaterOrEqual">>, <<"!=", "kNotEqual">>,
     <<"<=", "kLessOrEqual">>, <<">", "kGreater">>, <<"<", "kLess">>,
     <<"+", "kPlus">>, <<"-", "kMinus">>, <<"*", "kMultiply">>,
     <<"/", "kDivide">>, <<"%", "kModulo">>, <<"^", "kPower">>,
     <<"=", "kAssign">>, <<"+=", "kAddAssign">>, <<"-=", "kSubAssign">>,
     <<"*=", "kMultAssign">>, <<"/=", "kDivAssign">>, <<"%=", "kModAssign">>,
     <<"^=", "kPowAssign">>}

Token(token_type, value) == [type |-> token_type, value |-> value]

\* std::nullopt, and the token a getter returns with the offset it leaves.
NoToken == [type |-> "nullopt"]

Got(token, at) == [type |-> "token", token |-> token, at |-> at]

\* Lexer(str) on the characters of str; token is the token the last call
\* returned and what the what() of the exception a call threw.
Lexer(str) ==
    [source_str_ |-> str, current_symbol_ |-> 0, token |-> NoToken,
     what |-> ""]

\* The lexer of a run that reads no text.
NoLexer == Lexer(<<>>)

Digits == <<"0", "1", "2", "3", "4", "5", "6", "7", "8", "9">>

\* The string literals of the sample sources: the text between the quotes,
\* as the literal is written and as the characters of its value.
StringLiterals ==
    {<<"\"\"", <<>>>>, <<"\"a\"", <<"a">>>>, <<"\"ab\"", <<"a", "b">>>>,
     <<"\"abc\"", <<"a", "b", "c">>>>,
     <<"\"abcd\"", <<"a", "b", "c", "d">>>>}

\* The token GetNextToken makes of a word of the source: a line end, a
\* delimiter, an operator, a string literal, a number of one digit, a
\* keyword or, for any other word, an identifier.
Word(w) ==
    LET known == {e \in kDelimiters \cup kOperators \cup kKeyWords : e[1] = w}
        literal == {e \in StringLiterals : e[1] = w}
        digit == {d \in 1..Len(Digits) : Digits[d] = w}
    IN  IF w = "\n" THEN Token("kEndLine", w)
        ELSE IF known # {} THEN Token((CHOOSE e \in known : TRUE)[2], w)
        ELSE IF literal # {}
        THEN Token("kString", (CHOOSE e \in literal : TRUE)[2])
        ELSE IF digit # {}
        THEN Token("kNumber", (CHOOSE d \in digit : TRUE) - 1)
        ELSE Token("kIdentifier", w)

Words(ws) == [n \in 1..Len(ws) |-> Word(ws[n])]

IsBinOperator(token) ==
    token.type \in {"kPlus", "kMinus", "kMultiply", "kDivide", "kModulo",
                    "kPower", "kEqual", "kNotEqual", "kLess", "kGreater",
                    "kLessOrEqual", "kGreaterOrEqual", "kLogicalAnd",
                    "kLogicalOr", "kAssign", "kAddAssign", "kSubAssign",
                    "kMultAssign", "kDivAssign", "kModAssign", "kPowAssign"}

IsAtom(token) ==
    token.type \in {"kNumber", "kIdentifier", "kTrue", "kFalse", "kNil",
                    "kString"}

kLeftBindingPower(token_type) ==
    CASE token_type \in {"kAssign", "kAddAssign", "kSubAssign", "kMultAssign",
                         "kDivAssign", "kModAssign", "kPowAssign"} -> -1
      [] token_type = "kLogicalOr" -> 1
      [] token_type = "kLogicalAnd" -> 3
      [] token_type \in {"kEqual", "kNotEqual"} -> 5
      [] token_type \in {"kLess", "kLessOrEqual", "kGreater",
                         "kGreaterOrEqual"} -> 7
      [] token_type \in {"kPlus", "kMinus"} -> 9
      [] token_type \in {"kDivide", "kMultiply", "kModulo"} -> 11
      [] token_type = "kPower" -> 15

\* A right binding power equal to the left one.
EqualBindingPower(token_type) == kLeftBindingPower(token_type)

kRightBindingPower(token_type) ==
    CASE token_type \in {"kAssign", "kAddAssign", "kSubAssign", "kMultAssign",
                         "kDivAssign", "kModAssign", "kPowAssign"} -> -2
      [] token_type = "kLogicalOr" -> 2
      [] token_type = "kLogicalAnd" -> 4
      [] token_type \in {"kEqual", "kNotEqual"} -> 6
      [] token_type \in {"kLess", "kLessOrEqual", "kGreater",
                         "kGreaterOrEqual"} -> 8
      [] token_type \in {"kPlus", "kMinus"} -> 10
      [] token_type \in {"kDivide", "kMultiply", "kModulo"} -> 12
      [] token_type = "kPower" -> 14

PrefixOperators == {"kLogicalNot", "kPlus", "kMinus"}

kPrefixBindingPower(token_type) == 17

\* std::numeric_limits<int32_t>::min(), the default minimal binding power.
Int32Min == -2147483647 - 1

\* std::numeric_limits<double>::min(), which ParseSlice puts where a slice
\* argument is left out: the smallest positive double, 0 once ExecuteSlice
\* has cast it to int64_t.  The integers model it by 0.
DoubleMin == 0

kGlobalFunctions ==
    {"print", "println", "len", "read", "stacktrace", "lower", "upper",
     "split", "join", "replace", "capitalize", "abs", "sqrt", "ceil", "floor",
     "round", "rnd", "parse_num", "to_string", "range", "push", "pop",
     "insert", "remove", "sort"}

Parser(text) == [code |-> text, at |-> 1, err |-> "", node |-> NilLiteralNode,
                 list |-> <<>>]

GetPeek(p) ==
    IF p.at > Len(p.code) THEN Token("kEOF", "") ELSE p.code[p.at]

\* The parser after lexer_.GetNextToken(), which GetPeek(p) is the result of.
GetNextToken(p) == IF p.at > Len(p.code) THEN p ELSE [p EXCEPT !.at = @ + 1]

Peek(p, token_type) == GetPeek(p).type = token_type

RuntimeError(p, msg) == [p EXCEPT !.err = msg]

Thrown(p) == p.err # ""

Return(p, node) == [p EXCEPT !.node = node]

ReturnList(p, list) == [p EXCEPT !.list = list]

\* The member functions of the parser call one another through Parse:
\* Parse(name, p, arg) is the call of the one named, for those of one
\* parameter with any arg.
RECURSIVE Parse(_, _, _)

RECURSIVE ParseArguments(_, _), ParseListElements(_, _),
          ParseSliceArguments(_, _), ParseExpressionLoop(_, _),
          ParseExpression(_, _), ParseParameters(_, _), ParseBody(_, _),
          ParseThenBlock(_, _), ParseElseBlock(_, _), ParseLoopBlock(_, _),
          ParseStatements(_, _), ParseIf(_), ParseStatement(_)

\* The loop of both ParseFunctionCall overloads: the arguments up to ')'.
ParseArguments(p, args) ==
    IF Peek(p, "kRParen") \/ Peek(p, "kEOF") THEN ReturnList(p, args)
    ELSE IF Peek(p, "kEndLine") THEN ParseArguments(GetNextToken(p), args)
    ELSE IF args # <<>> /\ ~Peek(p, "kComma")
    THEN RuntimeError(GetNextToken(p),
                      "Expected ',' between function arguments")
    ELSE LET r == Parse("ParseExpression",
                        IF args # <<>> THEN GetNextToken(p) ELSE p, Int32Min)
         IN  IF Thrown(r) THEN r ELSE ParseArguments(r, Append(args, r.node))

\* Parse("ParseFunctionCall", const std::string&).
ParseFunctionCall(p, function_name) ==
    IF ~Peek(p, "kLParen")
    THEN RuntimeError(GetNextToken(p), "Expected '(' after function name")
    ELSE LET r == Parse("ParseArguments", GetNextToken(p), <<>>)
         IN  IF Thrown(r) THEN r
             ELSE IF ~Peek(r, "kRParen")
             THEN RuntimeError(GetNextToken(r),
                               "Expected ')' after function arguments")
             ELSE IF function_name \in kGlobalFunctions
             THEN Return(GetNextToken(r),
                         GlobalFunctionNode(function_name, r.list))
             ELSE Return(GetNextToken(r),
                         FunctionCallNode(function_name, r.list))

\* ParseFunctionCall(std::unique_ptr<BaseNode>&).
ParseUnnamedFunctionCall(p, lhs) ==
    IF ~Peek(p, "kLParen")
    THEN RuntimeError(GetNextToken(p), "Expected '(' after function name")
    ELSE LET r == Parse("ParseArguments", GetNextToken(p), <<>>)
         IN  IF Thrown(r) THEN r
             ELSE IF ~Peek(r, "kRParen")
             THEN RuntimeError(GetNextToken(r),
                               "Expected ')' after function arguments")
             ELSE Return(GetNextToken(r),
                         UnnamedFunctionCallNode(lhs, r.list))

ParseIdentifier(p, token) ==
    IF Peek(p, "kLParen") THEN Parse("ParseFunctionCall", p, token.value)
    ELSE Return(p, VariableNode(token.value))

ParseListElements(p, elements) ==
    IF Peek(p, "kEOF") \/ Peek(p, "kRBracket") THEN ReturnList(p, elements)
    ELSE IF Peek(p, "kEndLine")
    THEN ParseListElements(GetNextToken(p), elements)
    ELSE LET r == Parse("ParseExpression", p, Int32Min)
         IN  IF Thrown(r) THEN r
             ELSE IF Peek(r, "kComma")
             THEN ParseListElements(GetNextToken(r), Append(elements, r.node))
             ELSE IF Peek(r, "kRBracket")
             THEN ReturnList(r, Append(elements, r.node))
             ELSE RuntimeError(r, "Expected ',' between list elements")

ParseList(p) ==
    LET r == Parse("ParseListElements", p, <<>>)
    IN  IF Thrown(r) THEN r
        ELSE IF Peek(r, "kEOF")
        THEN RuntimeError(r, "Expected ']' after list elements")
        ELSE Return(GetNextToken(r), ListLiteralNode(r.list))

ParseSliceArguments(p, args) ==
    IF Peek(p, "kRBracket") \/ Peek(p, "kEOF") THEN ReturnList(p, args)
    ELSE IF Peek(p, "kEndLine")
    THEN ParseSliceArguments(GetNextToken(p), args)
    ELSE IF Peek(p, "kColon")
    THEN ParseSliceArguments(GetNextToken(p),
                             Append(args, NumberLiteralNode(DoubleMin)))
    ELSE LET r == Parse("ParseExpression", p, Int32Min)
         IN  IF Thrown(r) THEN r
             ELSE IF Peek(r, "kColon")
             THEN ParseSliceArguments(GetNextToken(r), Append(args, r.node))
             ELSE IF ~Peek(r, "kRBracket")
             THEN RuntimeError(r, "Expected ']' after slice arguments")
             ELSE ParseSliceArguments(r, Append(args, r.node))

ParseSlice(p, lhs) ==
    IF ~Peek(p, "kLBracket")
    THEN RuntimeError(GetNextToken(p), "Expected '[' after iterable object")
    ELSE IF Peek(GetNextToken(p), "kRBracket")
    THEN RuntimeError(GetNextToken(p), "Empty slice expression")
    ELSE LET r == Parse("ParseSliceArguments", GetNextToken(p), <<>>)
         IN  IF Thrown(r) THEN r
             ELSE IF Len(r.list) < 1 \/ Len(r.list) > 3
             THEN RuntimeError(r,
                      "Slice expression must have 1, 2, or 3 arguments")
             ELSE Return(GetNextToken(r),
                         GlobalFunctionNode("slice", <<lhs>> \o r.list))

\* The while (true) loop of ParseExpression; p.node is lhs.
ParseExpressionLoop(p, minimal_binding_power) ==
    LET operation == GetPeek(p)
    IN  IF operation.type \in {"kEOF", "kColon", "kEndLine", "kRParen",
                               "kEnd", "kThen", "kElseIf", "kElse", "kComma",
                               "kRBracket"}
        THEN p
        ELSE IF operation.type = "kLParen"
        THEN LET r == Parse("ParseUnnamedFunctionCall", p, p.node)
             IN  IF Thrown(r) THEN r
                 ELSE ParseExpressionLoop(r, minimal_binding_power)
        ELSE IF operation.type = "kLBracket"
        THEN LET r == Parse("ParseSlice", p, p.node)
             IN  IF Thrown(r) THEN r
                 ELSE ParseExpressionLoop(r, minimal_binding_power)
        ELSE IF ~IsBinOperator(operation)
        THEN RuntimeError(p, "Unknown binary operation")
        ELSE IF kLeftBindingPower(operation.type) < minimal_binding_power
        THEN p
        ELSE LET r == Parse("ParseExpression", GetNextToken(p),
                                      kRightBindingPower(operation.type))
             IN  IF Thrown(r) THEN r
                 ELSE ParseExpressionLoop(
                          Return(r, BinaryOperationNode(operation.value,
                                                        p.node, r.node)),
                          minimal_binding_power)

ParseExpression(p, minimal_binding_power) ==
    LET token == GetPeek(p)
        q == GetNextToken(p)
        lhs ==
            IF token.type \in PrefixOperators
            THEN LET r == ParseExpression(q, kPrefixBindingPower(token.type))
                 IN  IF Thrown(r) THEN r
                     ELSE Return(r, UnaryOperationNode(token.value, r.node))
            ELSE IF token.type = "kLBracket" THEN Parse("ParseList", q, <<>>)
            ELSE IF token.type = "kLParen"
            THEN LET r == ParseExpression(q, Int32Min)
                 IN  IF Thrown(r) THEN r
                     ELSE IF ~Peek(r, "kRParen")
                     THEN RuntimeError(GetNextToken(r), "Expected ')'\n")
                     ELSE Return(GetNextToken(r), r.node)
            ELSE IF IsAtom(token)
            THEN CASE token.type = "kIdentifier" ->
                        Parse("ParseIdentifier", q, token)
                   [] token.type = "kString" ->
                        Return(q, StringLiteralNode(token.value))
                   [] token.type = "kNumber" ->
                        Return(q, NumberLiteralNode(token.value))
                   [] token.type = "kTrue" -> Return(q, NumberLiteralNode(1))
                   [] token.type = "kFalse" -> Return(q, NumberLiteralNode(0))
                   [] token.type = "kNil" -> Return(q, NilLiteralNode)
            ELSE IF token.type = "kFunction"
            THEN LET r == Parse("ParseFunction", q, p.at)
                 IN  IF Thrown(r) THEN r
                     ELSE Return(r, FunctionImplementationNode(r.node))
            ELSE RuntimeError(q, "Incorrect expression")
    IN  IF Thrown(lhs) THEN lhs
        ELSE Parse("ParseExpressionLoop", lhs, minimal_binding_power)

\* The value of a null unique_ptr: what ParseStatement returns at the end
\* of the input.
nullptr == [type |-> "nullptr"]

ParseParameters(p, arg_names) ==
    IF Peek(p, "kRParen") \/ Peek(p, "kEOF") THEN ReturnList(p, arg_names)
    ELSE IF Peek(p, "kEndLine")
    THEN ParseParameters(GetNextToken(p), arg_names)
    ELSE IF ~Peek(p, "kIdentifier")
    THEN RuntimeError(p, "Expected identifier as function argument")
    ELSE LET names == Append(arg_names, GetPeek(p).value)
             next_token == GetPeek(GetNextToken(p))
             q == GetNextToken(GetNextToken(p))
         IN  IF next_token.type = "kRParen" THEN ReturnList(q, names)
             ELSE IF next_token.type = "kComma" THEN ParseParameters(q, names)
             ELSE RuntimeError(q, "Expected ',' between function arguments")

ParseBody(p, body) ==
    IF Peek(p, "kEOF") \/ Peek(p, "kEnd") THEN ReturnList(p, body)
    ELSE IF Peek(p, "kEndLine") THEN ParseBody(GetNextToken(p), body)
    ELSE LET r == Parse("ParseStatement", p, <<>>)
         IN  IF Thrown(r) THEN r
             ELSE ParseBody(IF Peek(r, "kEnd") THEN r ELSE GetNextToken(r),
                            Append(body, r.node))

\* id is the position of the keyword `function`: the address of the
\* FunctionDefinition this call allocates.
ParseFunction(p, id) ==
    IF ~Peek(p, "kLParen")
    THEN RuntimeError(GetNextToken(p),
                      "Expected '(' after function definition")
    ELSE LET a == Parse("ParseParameters", GetNextToken(p), <<>>)
             q == IF Peek(a, "kRParen") THEN GetNextToken(a) ELSE a
             b == Parse("ParseBody", q, <<>>)
         IN  IF Thrown(a) THEN a
             ELSE IF Peek(q, "kEOF")
             THEN RuntimeError(q, "Expected ')' after function arguments")
             ELSE IF Thrown(b) THEN b
             ELSE IF Peek(b, "kEOF")
             THEN RuntimeError(b,
                      "Expected \"end function\" after function body")
             ELSE IF ~Peek(GetNextToken(b), "kFunction")
             THEN RuntimeError(GetNextToken(GetNextToken(b)),
                      "Expected \"end function\", but got only \"end\"")
             ELSE Return(GetNextToken(GetNextToken(b)),
                         FunctionDefinition(id, a.list, b.list))

\* The while loop of ParseIf: the statements up to end, else or elseif.
ParseThenBlock(p, statements) ==
    IF GetPeek(p).type \in {"kEOF", "kElseIf", "kElse", "kEnd"}
    THEN ReturnList(p, statements)
    ELSE LET r == Parse("ParseStatement",
                        IF Peek(p, "kEndLine") THEN GetNextToken(p) ELSE p,
                        <<>>)
         IN  IF Thrown(r) THEN r
             ELSE IF GetPeek(r).type \in {"kEnd", "kElse", "kElseIf"}
             THEN ReturnList(r, Append(statements, r.node))
             ELSE ParseThenBlock(GetNextToken(r), Append(statements, r.node))

ParseElseBlock(p, else_block) ==
    IF Peek(p, "kEOF") \/ Peek(p, "kEnd") THEN ReturnList(p, else_block)
    ELSE LET r == Parse("ParseStatement", p, <<>>)
         IN  IF Thrown(r) THEN r
             ELSE IF Peek(r, "kEnd")
             THEN ReturnList(r, Append(else_block, r.node))
             ELSE ParseElseBlock(GetNextToken(r), Append(else_block, r.node))

ParseElse(p) ==
    LET r == Parse("ParseElseBlock", GetNextToken(p), <<>>)
    IN  IF Thrown(r) THEN r
        ELSE IF Peek(r, "kEOF") THEN RuntimeError(r, "Expected \"end if\"")
        ELSE IF ~Peek(GetNextToken(r), "kIf")
        THEN RuntimeError(GetNextToken(r), "Expected \"end if\"")
        ELSE GetNextToken(GetNextToken(r))

ParseIf(p) ==
    IF GetPeek(p).type \notin {"kIf", "kElseIf"}
    THEN RuntimeError(GetNextToken(p), "Expected \"if\"")
    ELSE LET condition == Parse("ParseExpression", GetNextToken(p), Int32Min)
             statements ==
                 Parse("ParseThenBlock", GetNextToken(condition), <<>>)
             token == GetPeek(statements)
             else_block == IF token.type = "kElseIf" THEN ParseIf(statements)
                           ELSE Parse("ParseElse", statements, <<>>)
         IN  IF Thrown(condition) THEN condition
             ELSE IF ~Peek(condition, "kThen")
             THEN RuntimeError(GetNextToken(condition),
                               "Expected \"then\" after if-block")
             ELSE IF Thrown(statements) THEN statements
             ELSE IF token.type = "kEOF"
             THEN RuntimeError(statements,
                               "Expected \"end if\", but got EOF")
             ELSE IF token.type = "kEnd"
             THEN IF ~Peek(GetNextToken(statements), "kIf")
                  THEN RuntimeError(GetNextToken(GetNextToken(statements)),
                           "Expected \"end if\", but got only \"end\"")
                  ELSE Return(GetNextToken(GetNextToken(statements)),
                              IfNode(condition.node, statements.list, <<>>))
             ELSE IF Thrown(else_block) THEN else_block
             ELSE IF token.type = "kElseIf"
             THEN Return(else_block,
                         IfNode(condition.node, statements.list,
                                <<else_block.node>>))
             ELSE Return(else_block,
                         IfNode(condition.node, statements.list,
                                else_block.list))

\* The statement loop ParseWhile and ParseFor share.
ParseLoopBlock(p, statements) ==
    IF Peek(p, "kEOF") \/ Peek(p, "kEnd") THEN ReturnList(p, statements)
    ELSE LET r == Parse("ParseStatement",
                        IF Peek(p, "kEndLine") THEN GetNextToken(p) ELSE p,
                        <<>>)
         IN  IF Thrown(r) THEN r
             ELSE ParseLoopBlock(GetNextToken(r), Append(statements, r.node))

ParseWhile(p) ==
    IF ~Peek(p, "kWhile")
    THEN RuntimeError(GetNextToken(p), "Expected \"while\"")
    ELSE LET condition == Parse("ParseExpression", GetNextToken(p), Int32Min)
             statements ==
                 Parse("ParseLoopBlock", IF Peek(condition, "kThen")
                                THEN GetNextToken(condition) ELSE condition,
                                <<>>)
             q == GetNextToken(GetNextToken(statements))
         IN  IF Thrown(condition) THEN condition
             ELSE IF Thrown(statements) THEN statements
             ELSE IF Peek(statements, "kEOF")
             THEN RuntimeError(statements,
                               "Expected \"end while\", but got EOF")
             ELSE IF ~Peek(GetNextToken(statements), "kWhile")
             THEN RuntimeError(q,
                      "Expected \"end while\", but got only \"end\"")
             ELSE Return(q, WhileNode(condition.node, statements.list))

ParseFor(p) ==
    IF ~Peek(p, "kFor") THEN RuntimeError(GetNextToken(p), "Expected \"for\"")
    ELSE IF ~Peek(GetNextToken(p), "kIdentifier")
    THEN RuntimeError(GetNextToken(p), "Expected identifier")
    ELSE LET variable_name == GetPeek(GetNextToken(p)).value
             in == GetNextToken(GetNextToken(p))
             sequence == Parse("ParseExpression", GetNextToken(in), Int32Min)
             statements ==
                 Parse("ParseLoopBlock", IF Peek(sequence, "kThen")
                                THEN GetNextToken(sequence) ELSE sequence,
                                <<>>)
             q == GetNextToken(GetNextToken(statements))
         IN  IF ~Peek(in, "kIn")
             THEN RuntimeError(GetNextToken(in),
                               "Expected \"in\" after \"for\"")
             ELSE IF Thrown(sequence) THEN sequence
             ELSE IF Thrown(statements) THEN statements
             ELSE IF Peek(statements, "kEOF")
             THEN RuntimeError(statements,
                               "Expected \"end for\", but got EOF")
             ELSE IF ~Peek(GetNextToken(statements), "kFor")
             THEN RuntimeError(q,
                      "Expected \"end for\", but got only \"end\"")
             ELSE Return(q, ForNode(variable_name, sequence.node,
                                    statements.list))

ParseReturn(p) ==
    LET r == Parse("ParseExpression", GetNextToken(p), Int32Min)
    IN  IF Thrown(r) THEN r ELSE Return(r, ReturnNode(r.node))

ParseStatement(p) ==
    LET token == GetPeek(p)
    IN  CASE token.type = "kEndLine" -> ParseStatement(GetNextToken(p))
          [] token.type = "kEOF" -> Return(p, nullptr)
          [] token.type = "kIf" -> Parse("ParseIf", p, <<>>)
          [] token.type = "kWhile" -> Parse("ParseWhile", p, <<>>)
          [] token.type = "kFor" -> Parse("ParseFor", p, <<>>)
          [] token.type = "kBreak" -> Return(GetNextToken(p), BreakNode)
          [] token.type = "kContinue" -> Return(GetNextToken(p), ContinueNode)
          [] token.type = "kReturn" -> Parse("ParseReturn", p, <<>>)
          [] OTHER -> Parse("ParseExpression", p, Int32Min)

\* The loop of ParseCode: the statements up to the end of the input.
ParseStatements(p, statements) ==
    IF Peek(p, "kEOF") THEN ReturnList(p, statements)
    ELSE LET r == Parse("ParseStatement", p, <<>>)
         IN  IF Thrown(r) THEN r
             ELSE IF r.node.type # "nullptr"
             THEN ParseStatements(r, Append(statements, r.node))
             ELSE ReturnList(r, statements)

Parse(name, p, arg) ==
    CASE name = "ParseArguments" -> ParseArguments(p, arg)
      [] name = "ParseFunctionCall" -> ParseFunctionCall(p, arg)
      [] name = "ParseUnnamedFunctionCall" -> ParseUnnamedFunctionCall(p, arg)
      [] name = "ParseIdentifier" -> ParseIdentifier(p, arg)
      [] name = "ParseListElements" -> ParseListElements(p, arg)
      [] name = "ParseSlice" -> ParseSlice(p, arg)
      [] name = "ParseSliceArguments" -> ParseSliceArguments(p, arg)
      [] name = "ParseExpressionLoop" -> ParseExpressionLoop(p, arg)
      [] name = "ParseExpression" -> ParseExpression(p, arg)
      [] name = "ParseParameters" -> ParseParameters(p, arg)
      [] name = "ParseBody" -> ParseBody(p, arg)
      [] name = "ParseFunction" -> ParseFunction(p, arg)
      [] name = "ParseThenBlock" -> ParseThenBlock(p, arg)
      [] name = "ParseElseBlock" -> ParseElseBlock(p, arg)
      [] name = "ParseLoopBlock" -> ParseLoopBlock(p, arg)
      [] name = "ParseStatements" -> ParseStatements(p, arg)
      [] name = "ParseList" -> ParseList(p)
      [] name = "ParseElse" -> ParseElse(p)
      [] name = "ParseIf" -> ParseIf(p)
      [] name = "ParseWhile" -> ParseWhile(p)
      [] name = "ParseFor" -> ParseFor(p)
      [] name = "ParseReturn" -> ParseReturn(p)
      [] name = "ParseStatement" -> ParseStatement(p)

\* The statements of the text up to the first one that does not parse: the
\* tree of a parser that would hand over what it has when it meets an error.
RECURSIVE ParseUpToError(_, _)
ParseUpToError(p, statements) ==
    IF Peek(p, "kEOF") THEN ReturnList(p, statements)
    ELSE LET r == Parse("ParseStatement", p, <<>>)
         IN  IF Thrown(r) \/ r.node.type = "nullptr"
             THEN ReturnList(p, statements)
             ELSE ParseUpToError(r, Append(statements, r.node))

ParseValidStatements(text) ==
    LET r == ParseUpToError(Parser(text), <<>>)
    IN  Return(r, RootNode(r.list))

ParseCode(text) ==
    LET r == Parse("ParseStatements", Parser(text), <<>>)
    IN  IF Thrown(r) THEN r ELSE Return(r, RootNode(r.list))

(***************************************************************************)
(* The evaluator's state as one record, so that the helpers below read     *)
(* like the member functions they model: each takes the state and returns  *)
(* the state after the call.                                               *)
(***************************************************************************)
Cur == [stack |-> stack, result_ |-> result_, scopes_ |-> scopes_,
        function_names_ |-> function_names_, control_flow_ |-> control_flow_,
        out_ |-> out_, heap |-> heap, status |-> status, what |-> what]

Install(c) ==
    /\ stack' = c.stack
    /\ result_' = c.result_
    /\ scopes_' = c.scopes_
    /\ function_names_' = c.function_names_
    /\ control_flow_' = c.control_flow_
    /\ out_' = c.out_
    /\ heap' = c.heap
    /\ status' = c.status
    /\ what' = c.what
    /\ UNCHANGED <<ast, code, lexer>>

NoFunction == FunctionDefinition(0, <<>>, <<>>)

\* A handler that has just been called.  depth is the scope depth at the call
\* and fired the value of the first return that fired in a call: no handler
\* reads them, they are there for the properties to compare against.
Frame(node, depth) ==
    [node |-> node, pc |-> "start", i |-> 0, it |-> 0, lhs |-> NilV,
     branch |-> <<>>, elements |-> <<>>, seq |-> NilV, func |-> NoFunction,
     depth |-> depth, fired |-> <<>>]

Top(c) == c.stack[Len(c.stack)]

\* child->Calculate: the handler, now at f, calls the visit of child.
Calculate(c, f, child) ==
    [c EXCEPT !.stack = Append([@ EXCEPT ![Len(@)] = f],
                               Frame(child, Len(c.scopes_)))]

\* The handler stays where f says (the back edge of its loop).
Goto(c, f) == [c EXCEPT !.stack[Len(c.stack)] = f]

\* The handler returns to its caller; the return of Visit(RootNode&) ends
\* ast->Calculate(visitor) and interpret() returns true.
Leave(c) ==
    [c EXCEPT !.stack = SubSeq(@, 1, Len(@) - 1),
              !.status = IF Len(c.stack) = 1 THEN "done" ELSE @]

\* throw std::runtime_error(msg): no handler catches, no scope is popped on
\* the way; interpret() writes e.what() and a newline and returns false.
Throw(c, msg) ==
    [c EXCEPT !.stack = <<>>, !.status = "error", !.what = msg,
              !.out_ = @ \o <<msg, "\n">>]

EmptyScope == [x \in {} |-> NilV]

PushScope(c) ==
    [c EXCEPT !.scopes_ = Append(@, EmptyScope),
              !.function_names_ = Append(@, {})]

PopScope(c) ==
    [c EXCEPT !.scopes_ = IF Len(@) > 0 THEN SubSeq(@, 1, Len(@) - 1) ELSE @,
              !.function_names_ =
                  IF Len(@) > 0 THEN SubSeq(@, 1, Len(@) - 1) ELSE @]

\* The index of the scope FindVariable's pointer points into; 0 is nullptr.
FindVariable(c, variable_name) ==
    LET holders == {d \in 1..Len(c.scopes_) :
                        variable_name \in DOMAIN c.scopes_[d]}
    IN  IF holders = {} THEN 0
        ELSE CHOOSE d \in holders : \A e \in holders : e <= d

ValueOf(c, variable_name) == c.scopes_[FindVariable(c, variable_name)][variable_name]

Bind(scope, name, value) ==
    [x \in DOMAIN scope \cup {name} |-> IF x = name THEN value ELSE scope[x]]

\* SetVariable as it would be if it never looked for a scope that holds the
\* name: the binding always goes to the top scope.
SetVariableInTopScope(c, variable_name, value) ==
    LET c1 == IF Len(c.scopes_) = 0 THEN PushScope(c) ELSE c
        c2 == [c1 EXCEPT !.scopes_[Len(c1.scopes_)] =
                             Bind(@, variable_name, value)]
    IN  IF HoldsFunction(value)
        THEN [c2 EXCEPT !.function_names_[Len(c2.function_names_)] =
                            @ \cup {variable_name}]
        ELSE c2

SetVariable(c, variable_name, value) ==
    LET c1 == IF Len(c.scopes_) = 0 THEN PushScope(c) ELSE c
        d  == FindVariable(c1, variable_name)
        at == IF d # 0 THEN d ELSE Len(c1.scopes_)
        c2 == [c1 EXCEPT !.scopes_[at] = Bind(@, variable_name, value)]
    IN  IF HoldsFunction(value)
        THEN [c2 EXCEPT !.function_names_[Len(c2.function_names_)] =
                            @ \cup {variable_name}]
        ELSE c2

IsFunctionName(c, function_name) ==
    \E d \in 1..Len(c.function_names_) : function_name \in c.function_names_[d]

\* A coercion that takes every value but nil for true.
GetBoolUnlessNil(c, value) == value.k # "Nil"

GetBool(c, value) ==
    CASE value.k = "Nil" -> FALSE
      [] value.k = "Num" -> value.n # 0
      [] value.k = "Str" -> Len(c.heap[value.ptr]) # 0
      [] value.k = "Fun" -> FALSE
      [] value.k = "List" -> Len(c.heap[value.ptr]) # 0

(***************************************************************************)
(* Stringification and the binary operations on values.                    *)
(***************************************************************************)
RECURSIVE NatToString(_)
NatToString(n) ==
    IF n < 10 THEN <<Digits[n + 1]>>
    ELSE NatToString(n \div 10) \o <<Digits[(n % 10) + 1]>>

\* std::to_string(static_cast<int64_t>(arg))
IntToString(n) == IF n < 0 THEN <<"-">> \o NatToString(-n) ELSE NatToString(n)

RECURSIVE ToString(_, _)
RECURSIVE JoinElements(_, _, _)
JoinElements(c, elements, i) ==
    IF i > Len(elements) THEN <<>>
    ELSE ToString(c, elements[i])
         \o (IF i # Len(elements) THEN <<",", " ">> ELSE <<>>)
         \o JoinElements(c, elements, i + 1)

ToString(c, value) ==
    CASE value.k = "Nil" -> <<"n", "i", "l">>
      [] value.k = "Num" -> IntToString(value.n)
      [] value.k = "Str" -> <<"\"">> \o c.heap[value.ptr] \o <<"\"">>
      [] value.k = "Fun" -> <<"f", "u", "n", "c", "t", "i", "o", "n">>
      [] value.k = "List" ->
            <<"[">> \o JoinElements(c, c.heap[value.ptr], 1) \o <<"]">>

\* std::string's operator< : byte-wise lexicographic, by the characters' codes.
Alphabet == <<"\"", "0", "1", "2", "3", "4", "5", "6", "7", "8", "9",
              "a", "b", "c", "d", "e", "f">>
Code(ch) == CHOOSE n \in 1..Len(Alphabet) : Alphabet[n] = ch

RECURSIVE StringLess(_, _)
StringLess(a, b) ==
    IF Len(b) = 0 THEN FALSE
    ELSE IF Len(a) = 0 THEN TRUE
    ELSE IF Code(Head(a)) # Code(Head(b)) THEN Code(Head(a)) < Code(Head(b))
    ELSE StringLess(Tail(a), Tail(b))

\* A new List object holding elements; the result register points to it.
MakeList(c, elements) ==
    [c EXCEPT !.heap = Append(@, elements), !.result_ = ListV(Len(c.heap) + 1)]

\* result_ = std::make_shared<std::string>(str).
MakeString(c, str) ==
    [c EXCEPT !.heap = Append(@, str), !.result_ = StrV(Len(c.heap) + 1)]

Boolean(b) == NumV(IF b THEN 1 ELSE 0)

EndsWith(s, t) ==
    Len(t) <= Len(s) /\ SubSeq(s, Len(s) - Len(t) + 1, Len(s)) = t

Operands(op) == "Incorrect operands in binary expression: A " \o op \o " B"

CalculateAdd(c, lhs, rhs) ==
    IF HoldsNumber(lhs) /\ HoldsNumber(rhs)
    THEN [c EXCEPT !.result_ = NumV(lhs.n + rhs.n)]
    ELSE IF HoldsString(lhs) /\ HoldsString(rhs)
    THEN MakeString(c, c.heap[lhs.ptr] \o c.heap[rhs.ptr])
    ELSE IF HoldsList(lhs) /\ HoldsList(rhs)
    THEN MakeList(c, c.heap[lhs.ptr] \o c.heap[rhs.ptr])
    ELSE Throw(c, Operands("+"))

CalculateSub(c, lhs, rhs) ==
    IF HoldsString(lhs) /\ HoldsString(rhs)
    THEN LET lhs_value == c.heap[lhs.ptr]
             rhs_value == c.heap[rhs.ptr]
         IN  MakeString(c, IF EndsWith(lhs_value, rhs_value)
                           THEN SubSeq(lhs_value, 1,
                                       Len(lhs_value) - Len(rhs_value))
                           ELSE lhs_value)
    ELSE IF HoldsNumber(lhs) /\ HoldsNumber(rhs)
    THEN [c EXCEPT !.result_ = NumV(lhs.n - rhs.n)]
    ELSE Throw(c, Operands("-"))

Repeat(elements, new_size) ==
    [i \in 1..new_size |-> elements[((i - 1) % Len(elements)) + 1]]

\* The list branch of CalculateMult for rhs_value = numerator / denominator:
\* static_cast<std::size_t>(rhs_value) is the quotient without its fraction.
MultiplyList(c, elements, numerator, denominator) ==
    IF numerator < 0
    THEN Throw(c, "Can not multiply a list by a negative number")
    ELSE MakeList(c, Repeat(elements,
                            (numerator \div denominator) * Len(elements)))

CalculateMult(c, lhs, rhs) ==
    IF HoldsNumber(lhs) /\ HoldsNumber(rhs)
    THEN [c EXCEPT !.result_ = NumV(lhs.n * rhs.n)]
    ELSE IF HoldsList(lhs) /\ HoldsNumber(rhs)
    THEN MultiplyList(c, c.heap[lhs.ptr], rhs.n, 1)
    ELSE IF ~HoldsString(lhs) \/ ~HoldsNumber(rhs)
    THEN Throw(c, Operands("*"))
    ELSE IF rhs.n < 0
    THEN Throw(c, "Can not multiply a string by a negative number")
    ELSE MakeString(c, Repeat(c.heap[lhs.ptr],
                              rhs.n * Len(c.heap[lhs.ptr])))

\* std::fmod on integral doubles: the remainder has the sign of the dividend.
\* A zero divisor gives NaN, which the integers do not hold: the sample
\* programs never divide by zero.
Fmod(a, b) ==
    LET m == IF b < 0 THEN -b ELSE b
    IN  IF a >= 0 THEN a % m ELSE -((-a) % m)

CalculateMod(c, lhs, rhs) ==
    IF HoldsNumber(lhs) /\ HoldsNumber(rhs)
    THEN [c EXCEPT !.result_ = NumV(Fmod(lhs.n, rhs.n))]
    ELSE Throw(c, Operands("%"))

Abs(n) == IF n < 0 THEN -n ELSE n

\* Whether the quotient or the power of two integral doubles is integral
\* and finite; where it is not, the integers do not hold it.
IsIntegral(op, lhs, rhs) ==
    \/ ~(HoldsNumber(lhs) /\ HoldsNumber(rhs))
    \/ op \in {"/", "/="} /\ rhs.n # 0 /\ Abs(lhs.n) % Abs(rhs.n) = 0
    \/ op \in {"^", "^="} /\ rhs.n >= 0
    \/ op \notin {"/", "/=", "^", "^="}

CalculateDiv(c, lhs, rhs) ==
    IF HoldsNumber(lhs) /\ HoldsNumber(rhs)
    THEN [c EXCEPT !.result_ =
              NumV((IF (lhs.n < 0) = (rhs.n < 0) THEN 1 ELSE -1)
                   * (Abs(lhs.n) \div Abs(rhs.n)))]
    ELSE Throw(c, Operands("/"))

\* std::pow for an integral base and a whole exponent.
RECURSIVE Pow(_, _)
Pow(base, exponent) ==
    IF exponent = 0 THEN 1 ELSE base * Pow(base, exponent - 1)

CalculatePow(c, lhs, rhs) ==
    IF HoldsNumber(lhs) /\ HoldsNumber(rhs)
    THEN [c EXCEPT !.result_ = NumV(Pow(lhs.n, rhs.n))]
    ELSE Throw(c, Operands("^"))

\* operation(lhs, rhs) of CalculateCompare for two operands of one kind, as
\* the set of results the build can give.  monostate compares equal to
\* itself; doubles compare by value; shared pointers (functions, lists)
\* compare by address, and the order of two distinct addresses is whatever
\* the allocator made it.
CompareSame(op, lhs, rhs) ==
    LET eq == CASE lhs.k = "Nil" -> TRUE
                [] lhs.k = "Num" -> lhs.n = rhs.n
                [] lhs.k = "Fun" -> lhs.f.id = rhs.f.id
                [] lhs.k = "List" -> lhs.ptr = rhs.ptr
        lt == IF lhs.k = "Num" THEN {lhs.n < rhs.n}
              ELSE IF eq THEN {FALSE} ELSE {TRUE, FALSE}
    IN  CASE op = "==" -> {eq}
          [] op = "!=" -> {~eq}
          [] op = "<"  -> lt
          [] op = ">"  -> {~eq /\ ~b : b \in lt}
          [] op = "<=" -> {eq \/ b : b \in lt}
          [] op = ">=" -> {eq \/ ~b : b \in lt}

StringCompare(op, a, b) ==
    CASE op = "==" -> a = b
      [] op = "!=" -> a # b
      [] op = "<"  -> StringLess(a, b)
      [] op = ">"  -> StringLess(b, a)
      [] op = "<=" -> ~StringLess(b, a)
      [] op = ">=" -> ~StringLess(a, b)

\* CalculateLess .. CalculateGreaterOrEqual: the set of states after the call.
CalculateCompare(c, op, lhs, rhs) ==
    IF HoldsString(lhs) /\ HoldsString(rhs)
    THEN {[c EXCEPT !.result_ = Boolean(StringCompare(op, c.heap[lhs.ptr],
                                                      c.heap[rhs.ptr]))]}
    ELSE IF lhs.k = rhs.k
    THEN {[c EXCEPT !.result_ = Boolean(b)] : b \in CompareSame(op, lhs, rhs)}
    ELSE {[c EXCEPT !.result_ = NumV(0)]}

CompareOperations == {"==", "!=", "<", ">", "<=", ">="}
AssignOperations == {"=", "+=", "-=", "*=", "/=", "%=", "^="}

(***************************************************************************)
(* The Visit handlers.  An action is enabled when the innermost running    *)
(* handler is the one it models.                                           *)
(***************************************************************************)
At(type) ==
    /\ status = "running"
    /\ Len(stack) > 0
    /\ stack[Len(stack)].node.type = type

\* What follows a call that may have thrown: the exception has already left
\* every handler, otherwise this handler returns.
LeaveUnlessThrown(c) == IF c.status = "error" THEN c ELSE Leave(c)

VisitNumberLiteralNode ==
    /\ At("NumberLiteralNode")
    /\ Install(Leave([Cur EXCEPT !.result_ = NumV(Top(Cur).node.value)]))

VisitStringLiteralNode ==
    /\ At("StringLiteralNode")
    /\ Install(Leave(MakeString(Cur, Top(Cur).node.value)))

VisitNilLiteralNode ==
    /\ At("NilLiteralNode")
    /\ Install(Leave([Cur EXCEPT !.result_ = NilV]))

VisitListLiteralNode ==
    /\ At("ListLiteralNode")
    /\ LET c == Cur
           f == Top(c)
           node == f.node
           elements == IF f.pc = "start" THEN <<>>
                       ELSE Append(f.elements, c.result_)
       IN  Install(
             IF f.i < Len(node.elements)
             THEN Calculate(c, [f EXCEPT !.pc = "elements", !.i = f.i + 1,
                                         !.elements = elements],
                            node.elements[f.i + 1])
             ELSE Leave(MakeList(c, elements)))

VisitVariableNode ==
    /\ At("VariableNode")
    /\ LET c == Cur
           name == Top(c).node.name
       IN  Install(
             IF FindVariable(c, name) # 0
             THEN Leave([c EXCEPT !.result_ = ValueOf(c, name)])
             ELSE Throw(c, "Variable '" \o name \o "' not found"))

VisitFunctionImplementationNode ==
    /\ At("FunctionImplementationNode")
    /\ Install(Leave([Cur EXCEPT !.result_ = FunV(Top(Cur).node.function)]))

VisitBreakNode ==
    /\ At("BreakNode")
    /\ Install(Leave([Cur EXCEPT !.control_flow_ = "Break"]))

VisitContinueNode ==
    /\ At("ContinueNode")
    /\ Install(Leave([Cur EXCEPT !.control_flow_ = "Continue"]))

\* Observation only: the call that is running, if any, notes the value of
\* the first return that fired in it (its frame's fired).
Fired(c) ==
    LET calls == {d \in 1..Len(c.stack) :
                      c.stack[d].node.type \in {"FunctionCallNode",
                                                "UnnamedFunctionCallNode"}}
        call == CHOOSE d \in calls : \A e \in calls : e <= d
    IN  IF calls = {} \/ c.stack[call].fired # <<>> THEN c
        ELSE [c EXCEPT !.stack[call].fired = <<c.result_>>]

VisitReturnNode ==
    /\ At("ReturnNode")
    /\ LET c == Cur
           f == Top(c)
       IN  Install(
             IF f.pc = "start"
             THEN Calculate(c, [f EXCEPT !.pc = "value"], f.node.value)
             ELSE Leave(Fired([c EXCEPT !.control_flow_ = "Return"])))

AssignToLeftOperand(c, node) ==
    IF node.lhs.type # "VariableNode"
    THEN Throw(c, "The left operand of the assignment must be a variable")
    ELSE LET c0 == IF Len(c.function_names_) = 0
                   THEN [c EXCEPT !.function_names_ = Append(@, {})]
                   ELSE c
             c1 == IF HoldsFunction(c.result_)
                   THEN [c0 EXCEPT !.function_names_[Len(c0.function_names_)] =
                                       @ \cup {node.lhs.name}]
                   ELSE c
         IN  SetVariable(c1, node.lhs.name, c1.result_)

\* CalculateAdd, CalculateSub, CalculateMult, CalculateDiv, CalculateMod or
\* CalculatePow, by the operator.
Arithmetic(c, op, lhs, rhs) ==
    CASE op \in {"+", "+="} -> CalculateAdd(c, lhs, rhs)
      [] op \in {"-", "-="} -> CalculateSub(c, lhs, rhs)
      [] op \in {"*", "*="} -> CalculateMult(c, lhs, rhs)
      [] op \in {"/", "/="} -> CalculateDiv(c, lhs, rhs)
      [] op \in {"%", "%="} -> CalculateMod(c, lhs, rhs)
      [] op \in {"^", "^="} -> CalculatePow(c, lhs, rhs)

\* The states after the operands are evaluated: the compound assignments
\* calculate and assign, the second switch calculates, and an operation the
\* second switch has no case for (and, or) leaves result_ as it is.  There
\* is no state after a division or a power whose value is not an integer.
BinaryOperation(c, node, lhs, rhs) ==
    CASE ~IsIntegral(node.operation, lhs, rhs) -> {}
      [] node.operation = "=" ->
            {LeaveUnlessThrown(AssignToLeftOperand(c, node))}
      [] node.operation \in AssignOperations \ {"="} ->
            LET c1 == Arithmetic(c, node.operation, lhs, rhs)
            IN  {IF c1.status = "error" THEN c1
                 ELSE LeaveUnlessThrown(AssignToLeftOperand(c1, node))}
      [] node.operation \in {"+", "-", "*", "/", "%", "^"} ->
            {LeaveUnlessThrown(Arithmetic(c, node.operation, lhs, rhs))}
      [] node.operation \in CompareOperations ->
            {Leave(n) : n \in CalculateCompare(c, node.operation, lhs, rhs)}
      [] OTHER -> {Leave(c)}

VisitBinaryOperationNode ==
    /\ At("BinaryOperationNode")
    /\ LET c == Cur
           f == Top(c)
           node == f.node
       IN  CASE f.pc = "start" /\ node.operation = "=" ->
                  Install(Calculate(c, [f EXCEPT !.pc = "rhs"], node.rhs))
             [] f.pc = "start" /\ node.operation # "=" ->
                  Install(Calculate(c, [f EXCEPT !.pc = "lhs"], node.lhs))
             [] f.pc = "lhs" ->
                  Install(Calculate(c, [f EXCEPT !.pc = "rhs",
                                                 !.lhs = c.result_], node.rhs))
             [] f.pc = "rhs" ->
                  \E n \in BinaryOperation(c, node, f.lhs, c.result_) :
                      Install(n)

\* The handler evaluates the operand, and CalculateUnaryMinus,
\* CalculateUnaryPlus and CalculateLogicalNot each evaluate it again.
VisitUnaryOperationNode ==
    /\ At("UnaryOperationNode")
    /\ LET c == Cur
           f == Top(c)
           node == f.node
       IN  Install(
             CASE f.pc = "start" ->
                    Calculate(c, [f EXCEPT !.pc = "arg"], node.arg)
               [] f.pc = "arg" ->
                    Calculate(c, [f EXCEPT !.pc = "operation"], node.arg)
               [] f.pc = "operation" /\ node.operation = "not" ->
                    Leave([c EXCEPT !.result_ =
                                        Boolean(~GetBool(c, c.result_))])
               [] f.pc = "operation" /\ node.operation = "-" ->
                    IF HoldsNumber(c.result_)
                    THEN Leave([c EXCEPT !.result_ = NumV(-c.result_.n)])
                    ELSE Throw(c,
                           "Unary minus can be applied only to the number")
               [] f.pc = "operation" /\ node.operation = "+" ->
                    IF HoldsNumber(c.result_)
                    THEN Leave(c)
                    ELSE Throw(c,
                           "Unary plus can be applied only to the number"))

\* Visit(IfNode&) with the loop of ExecuteStatements.
VisitIfNode ==
    /\ At("IfNode")
    /\ LET c == Cur
           f == Top(c)
           node == f.node
       IN  Install(
             CASE f.pc = "start" ->
                    Calculate(c, [f EXCEPT !.pc = "condition"], node.condition)
               [] f.pc = "condition" ->
                    LET statements == IF GetBool(c, c.result_)
                                      THEN node.then_statements
                                      ELSE node.else_statements
                        c1 == PushScope(c)
                    IN  IF Len(statements) = 0 THEN Leave(PopScope(c1))
                        ELSE Calculate(c1, [f EXCEPT !.pc = "statements",
                                                     !.i = 1,
                                                     !.branch = statements],
                                       statements[1])
               [] f.pc = "statements" ->
                    IF c.control_flow_ # "Default" \/ f.i = Len(f.branch)
                    THEN Leave(PopScope(c))
                    ELSE Calculate(c, [f EXCEPT !.i = f.i + 1],
                                   f.branch[f.i + 1]))

\* The end of an iteration of while and of for over a list: PopScope, then
\* `continue` on Default, and a flag other than Return is reset.
EndIteration(c) ==
    LET c1 == PopScope(c)
    IN  IF c1.control_flow_ \notin {"Default", "Return"}
        THEN [c1 EXCEPT !.control_flow_ = "Default"]
        ELSE c1

VisitWhileNode ==
    /\ At("WhileNode")
    /\ LET c == Cur
           f == Top(c)
           node == f.node
       IN  Install(
             CASE f.pc = "start" ->
                    Calculate(c, [f EXCEPT !.pc = "condition"], node.condition)
               [] f.pc = "condition" ->
                    IF ~GetBool(c, c.result_) THEN Leave(c)
                    ELSE IF Len(node.statements) = 0
                    THEN Goto(EndIteration(PushScope(c)),
                              [f EXCEPT !.pc = "start"])
                    ELSE Calculate(PushScope(c),
                                   [f EXCEPT !.pc = "statements", !.i = 1],
                                   node.statements[1])
               [] f.pc = "statements" ->
                    IF c.control_flow_ = "Default" /\ f.i < Len(node.statements)
                    THEN Calculate(c, [f EXCEPT !.i = f.i + 1],
                                   node.statements[f.i + 1])
                    ELSE Goto(EndIteration(c), [f EXCEPT !.pc = "start"]))

VisitForNode ==
    /\ At("ForNode")
    /\ LET c == Cur
           f == Top(c)
           node == f.node
           body == node.statements
       IN  Install(
             CASE f.pc = "start" ->
                    Calculate(c, [f EXCEPT !.pc = "sequence"], node.sequence)
               [] f.pc = "sequence" ->
                    IF ~HoldsString(c.result_) /\ ~HoldsList(c.result_)
                    THEN Throw(c, "Sequence must be iterable")
                    ELSE Goto(c, [f EXCEPT !.pc = IF HoldsList(c.result_)
                                                  THEN "list" ELSE "string",
                                           !.seq = c.result_, !.it = 1])
               \* for (auto& element : sequence->elements)
               [] f.pc = "list" ->
                    IF f.it > Len(c.heap[f.seq.ptr]) THEN Leave(c)
                    ELSE LET c1 == SetVariable(PushScope(c), node.iterable_name,
                                               c.heap[f.seq.ptr][f.it])
                         IN  IF Len(body) = 0
                             THEN Goto(EndIteration(c1),
                                       [f EXCEPT !.it = f.it + 1])
                             ELSE Calculate(c1, [f EXCEPT !.pc = "list_statements",
                                                          !.i = 1], body[1])
               [] f.pc = "list_statements" ->
                    IF c.control_flow_ = "Default" /\ f.i < Len(body)
                    THEN Calculate(c, [f EXCEPT !.i = f.i + 1], body[f.i + 1])
                    ELSE Goto(EndIteration(c),
                              [f EXCEPT !.pc = "list", !.it = f.it + 1])
               \* for (char c : *sequence)
               [] f.pc = "string" ->
                    IF f.it > Len(c.heap[f.seq.ptr]) THEN Leave(c)
                    ELSE LET sequence == c.heap[f.seq.ptr]
                             c0 == [c EXCEPT !.heap =
                                       Append(@, <<sequence[f.it]>>)]
                             c1 == SetVariable(PushScope(c0),
                                               node.iterable_name,
                                               StrV(Len(c0.heap)))
                         IN  IF Len(body) = 0
                             THEN Goto(PopScope(c1), [f EXCEPT !.it = f.it + 1])
                             ELSE Calculate(c1, [f EXCEPT !.pc = "string_statements",
                                                          !.i = 1], body[1])
               [] f.pc = "string_statements" ->
                    IF c.control_flow_ = "Break"
                    THEN Goto(PopScope([c EXCEPT !.control_flow_ = "Default"]),
                              [f EXCEPT !.pc = "string", !.it = f.it + 1])
                    ELSE IF c.control_flow_ = "Return"
                    THEN Leave(c)
                    ELSE LET c1 == [c EXCEPT !.control_flow_ = "Default"]
                         IN  IF f.i < Len(body)
                             THEN Calculate(c1, [f EXCEPT !.i = f.i + 1],
                                            body[f.i + 1])
                             ELSE Goto(PopScope(c1),
                                       [f EXCEPT !.pc = "string",
                                                 !.it = f.it + 1]))

\* A string of characters as one string (std::format's "{}").
RECURSIVE Text(_)
Text(s) == IF Len(s) = 0 THEN "" ELSE Head(s) \o Text(Tail(s))

\* what() of the std::bad_variant_access that std::get throws.
BadVariantAccess == "bad variant access"

\* The loop over the function's statements, entered (i = 0) or back from
\* statement i: it stops on Return only.
FunctionBody(c, f) ==
    IF (f.pc = "body" /\ c.control_flow_ = "Return") \/ f.i = Len(f.func.body)
    THEN [c EXCEPT !.stack[Len(c.stack)] = [f EXCEPT !.pc = "end"]]
    ELSE Calculate(c, [f EXCEPT !.pc = "body", !.i = f.i + 1],
                   f.func.body[f.i + 1])

VisitFunctionCallNode ==
    /\ At("FunctionCallNode")
    /\ LET c == Cur
           f == Top(c)
           node == f.node
           name == node.function_name
           \* after the argument loop and the statement loop
           end(c1) ==
               LET c2 == PopScope(c1)
                   c3 == IF c2.control_flow_ # "Return"
                         THEN [c2 EXCEPT !.result_ = NilV] ELSE c2
               IN  Leave([c3 EXCEPT !.control_flow_ = "Default"])
           body(c1, f1) ==
               LET c2 == FunctionBody(c1, f1)
               IN  IF Top(c2).pc = "end" THEN end(c2) ELSE c2
           arguments(c1, f1) ==
               IF f1.i < Len(f1.func.arg_names)
               THEN Calculate(c1, [f1 EXCEPT !.pc = "args", !.i = f1.i + 1],
                              node.args[f1.i + 1])
               ELSE body(c1, [f1 EXCEPT !.i = 0])
       IN  Install(
             CASE f.pc = "start" ->
                    IF ~IsFunctionName(c, name)
                    THEN Throw(c, "Function " \o name \o " not found")
                    ELSE IF FindVariable(c, name) = 0
                    THEN Throw(c, "Function '" \o name \o "' not found")
                    ELSE IF ~HoldsFunction(ValueOf(c, name))
                    THEN Throw(c, BadVariantAccess)
                    ELSE IF Len(ValueOf(c, name).f.arg_names) # Len(node.args)
                    THEN Throw(PushScope(c),
                               "Function '" \o name \o "' with "
                               \o Text(IntToString(Len(node.args)))
                               \o " arguments not found")
                    ELSE arguments(PushScope(c),
                                   [f EXCEPT !.func = ValueOf(c, name).f])
               [] f.pc = "args" ->
                    arguments(SetVariable(c, f.func.arg_names[f.i], c.result_), f)
               [] f.pc = "body" -> body(c, f))

\* What reading node.args()[i] past the end of the vector and calling
\* Calculate through it can do: the process dies, or the call comes back
\* with some value in the result register.
OutOfBoundsValues == {NilV, NumV(0)}

Crash(c) == [c EXCEPT !.stack = <<>>, !.status = "crashed"]

VisitUnnamedFunctionCallNode ==
    /\ At("UnnamedFunctionCallNode")
    /\ LET c == Cur
           f == Top(c)
           node == f.node
           end(c1) ==
               LET c2 == PopScope(c1)
               IN  Leave(IF c2.control_flow_ = "Return"
                         THEN [c2 EXCEPT !.control_flow_ = "Default"]
                         ELSE [c2 EXCEPT !.result_ = NilV])
           body(c1, f1) ==
               LET c2 == FunctionBody(c1, f1)
               IN  IF Top(c2).pc = "end" THEN end(c2) ELSE c2
           arguments(c1, f1) ==
               IF f1.i >= Len(f1.func.arg_names)
               THEN {body(c1, [f1 EXCEPT !.i = 0])}
               ELSE IF f1.i < Len(node.args)
               THEN {Calculate(c1, [f1 EXCEPT !.pc = "args", !.i = f1.i + 1],
                               node.args[f1.i + 1])}
               ELSE {Crash(c1)} \cup
                    {Goto([c1 EXCEPT !.result_ = v],
                          [f1 EXCEPT !.pc = "args", !.i = f1.i + 1]) :
                         v \in OutOfBoundsValues}
       IN  CASE f.pc = "start" ->
                  Install(Calculate(c, [f EXCEPT !.pc = "function"],
                                    node.function))
             [] f.pc = "function" ->
                  IF ~HoldsFunction(c.result_)
                  THEN Install(Throw(c,
                         "() operator can be applied only to the function"))
                  ELSE \E n \in arguments(PushScope(c),
                                          [f EXCEPT !.func = c.result_.f]) :
                           Install(n)
             [] f.pc = "args" ->
                  \E n \in arguments(SetVariable(c, f.func.arg_names[f.i],
                                                 c.result_), f) :
                      Install(n)
             [] f.pc = "body" -> Install(body(c, f))

VisitRootNode ==
    /\ At("RootNode")
    /\ LET c == Cur
           f == Top(c)
           node == f.node
       IN  Install(
             IF f.i < Len(node.statements)
             THEN Calculate(c, [f EXCEPT !.pc = "statements", !.i = f.i + 1],
                            node.statements[f.i + 1])
             ELSE Leave(c))

\* ExecutePrint and ExecutePrintln.
ExecutePrint(c) ==
    LET f == Top(c)
        node == f.node
        text == IF HoldsString(c.result_) THEN c.heap[c.result_.ptr]
                ELSE ToString(c, c.result_)
    IN  IF f.pc = "start"
        THEN IF Len(node.args) # 1
             THEN {Throw(c, "print() requires one argument")}
             ELSE {Calculate(c, [f EXCEPT !.pc = "arg"], node.args[1])}
        ELSE {Leave([c EXCEPT !.out_ =
                        @ \o text \o (IF node.name = "println"
                                      THEN <<"\n">> ELSE <<>>)])}

\* The numbers from start to end, end included, by step.
RECURSIVE RangeUpTo(_, _, _)
RangeUpTo(start, end, step) ==
    IF (step > 0 /\ start <= end) \/ (step <= 0 /\ start >= end)
    THEN <<NumV(start)>> \o RangeUpTo(start + step, end, step)
    ELSE <<>>

\* The loop of ExecuteRange: start, start + step, ... up to end, exclusive.
RECURSIVE RangeSequence(_, _, _)
RangeSequence(start, end, step) ==
    IF (step > 0 /\ start < end) \/ (step <= 0 /\ start > end)
    THEN <<NumV(start)>> \o RangeSequence(start + step, end, step)
    ELSE <<>>

\* ExecuteRange; f.elements holds start, end and step as they are read.
ExecuteRange(c) ==
    LET f == Top(c)
        node == f.node
        read == Append(f.elements, c.result_)
        start == read[1].n
        end == read[2].n
        step == read[3].n
    IN  IF f.pc = "start"
        THEN IF Len(node.args) # 3
             THEN {Throw(c, "range() requires three arguments")}
             ELSE {Calculate(c, [f EXCEPT !.pc = "args", !.i = 1],
                             node.args[1])}
        ELSE IF ~HoldsNumber(c.result_)
        THEN {Throw(c, "all arguments of range() must be numbers")}
        ELSE IF f.i < 3
        THEN {Calculate(c, [f EXCEPT !.i = f.i + 1, !.elements = read],
                        node.args[f.i + 1])}
        ELSE IF step = 0
        THEN {Throw(c, "Step of range() must be non-zero")}
        ELSE IF step > 0 /\ start >= end
        THEN {Throw(c, "Start of range() must be less than end if step is positive")}
        ELSE IF step < 0 /\ start <= end
        THEN {Throw(c, "Start of range() must be greater than end if step is negative")}
        ELSE {Leave(MakeList(c, RangeSequence(start, end, step)))}

\* The most elements a vector can grow to before the allocation fails.
MaxElements == 6

\* what() of the std::bad_alloc a failed allocation throws.
BadAlloc == "std::bad_alloc"

\* what() of the std::out_of_range that std::string::substr throws.
OutOfRange == "basic_string::substr"

\* index >= elements.size(), which compares as size_t: a negative index is
\* converted to 2^64 + index, above every size.
NotBelowSize(index, size) == index < 0 \/ index >= size

\* List::GetElement.
GetElement(c, elements, index) ==
    IF NotBelowSize(index, Len(elements)) \/ index < -Len(elements)
    THEN Throw(c, "Index is out of range when getting element from list")
    ELSE [c EXCEPT !.result_ =
              elements[(IF index < 0 THEN index + Len(elements) ELSE index) + 1]]

\* List::GetSublist up to its loop, which the handler enters with i in f.it,
\* end and step in f.branch and an empty result in f.elements.
GetSublist(c, f, elements, start, end, step) ==
    IF (start > 0 /\ end < 0) \/ (start < 0 /\ end > 0)
    THEN Leave(MakeList(c, <<>>))
    ELSE Goto(c, [f EXCEPT
                    !.pc = "sublist",
                    !.it = IF start < 0 THEN start + Len(elements) ELSE start,
                    !.branch = <<IF end < 0 THEN end + Len(elements) ELSE end,
                                 step>>,
                    !.elements = <<>>])

\* One turn of the loop of List::GetSublist: elements[i] is appended before
\* i is compared with end.  An index outside the vector is read all the
\* same: the process dies or some value comes back.
GetSublistLoop(c) ==
    LET f == Top(c)
        elements == c.heap[f.seq.ptr]
        i == f.it
        end == f.branch[1]
        step == f.branch[2]
        inside == 0 <= i /\ i < Len(elements)
        After(value) ==
            LET result == Append(f.elements, value)
            IN  IF (step < 0 /\ i <= end) \/ (step > 0 /\ i >= end)
                THEN Leave(MakeList(c, result))
                ELSE Goto(c, [f EXCEPT !.elements = result, !.it = i + step])
    IN  IF Len(f.elements) >= MaxElements THEN {Throw(c, BadAlloc)}
        ELSE IF inside THEN {After(elements[i + 1])}
        ELSE {Crash(c)} \cup {After(value) : value \in OutOfBoundsValues}

\* The characters of str from pos up to position count.
SubstrUpTo(c, str, pos, count) ==
    MakeString(c, SubSeq(str, pos + 1, count))

\* std::string::substr(pos, count), count converted to size_t.
Substr(c, str, pos, count) ==
    IF NotBelowSize(pos, Len(str) + 1) THEN Throw(c, OutOfRange)
    ELSE MakeString(c, SubSeq(str, pos + 1,
                              IF count < 0 \/ pos + count > Len(str)
                              THEN Len(str) ELSE pos + count))

\* The switches of ExecuteSlice, with the indices read in f.elements.
Slice(c, f) ==
    LET indices == f.elements
        lhs == f.seq
    IN  IF Len(indices) \notin 1..3
        THEN Throw(c, "Incorrect number of arguments in slice")
        ELSE IF HoldsList(lhs)
        THEN CASE Len(indices) = 1 ->
                    LeaveUnlessThrown(
                        GetElement(c, c.heap[lhs.ptr], indices[1]))
               [] Len(indices) = 2 ->
                    GetSublist(c, f, c.heap[lhs.ptr], indices[1],
                               indices[2] - 1, 1)
               [] Len(indices) = 3 ->
                    GetSublist(c, f, c.heap[lhs.ptr], indices[1],
                               indices[2] - 1, indices[3])
        ELSE LeaveUnlessThrown(
                 Substr(c, c.heap[lhs.ptr], indices[1],
                        IF Len(indices) = 1 THEN 1
                        ELSE indices[2] - indices[1]))

\* ExecuteSlice: the iterable, then the indices, cast to int64_t, then the
\* slice.
ExecuteSlice(c) ==
    LET f == Top(c)
        node == f.node
        ReadIndices(g) ==
            IF g.i < Len(node.args)
            THEN Calculate(c, [g EXCEPT !.pc = "indices", !.i = g.i + 1],
                           node.args[g.i + 1])
            ELSE Slice(c, g)
    IN  CASE f.pc = "start" ->
                {Calculate(c, [f EXCEPT !.pc = "iterable"], node.args[1])}
          [] f.pc = "iterable" ->
                IF ~HoldsString(c.result_) /\ ~HoldsList(c.result_)
                THEN {Throw(c,
                        "Slice can be applied only to the iterable object")}
                ELSE {ReadIndices([f EXCEPT !.seq = c.result_, !.i = 1,
                                            !.elements = <<>>])}
          [] f.pc = "indices" ->
                IF ~HoldsNumber(c.result_)
                THEN {Throw(c, "All arguments of slice() must be numbers")}
                ELSE {ReadIndices([f EXCEPT !.elements =
                                                Append(@, c.result_.n)])}
          [] f.pc = "sublist" -> GetSublistLoop(c)

\* std::string::npos.
npos == -1

\* std::string::find(s, pos): the first position not before pos at which s
\* occurs in str, positions counted from 0.
RECURSIVE Find(_, _, _)
Find(str, s, pos) ==
    IF pos + Len(s) > Len(str) THEN npos
    ELSE IF SubSeq(str, pos + 1, pos + Len(s)) = s THEN pos
    ELSE Find(str, s, pos + 1)

\* A std::string after std::move has taken its contents: valid, its value
\* unspecified.  The standard libraries leave it empty; a library may also
\* leave the characters where they were.
MovedFrom(str) == {<<>>, str}

\* std::string x = std::move(*std::get<StringPtr>(result_)): the states
\* after the move, the string result_ points to being any of MovedFrom.
Move(c) ==
    {[c EXCEPT !.heap[c.result_.ptr] = str] :
       str \in MovedFrom(c.heap[c.result_.ptr])}

\* The loop of ExecuteJoin from element i on.
RECURSIVE JoinLoop(_, _, _, _)
JoinLoop(c, elements, delimiter, i) ==
    IF i > Len(elements) THEN <<>>
    ELSE (IF HoldsString(elements[i]) THEN c.heap[elements[i].ptr]
          ELSE ToString(c, elements[i]))
         \o (IF i # Len(elements) THEN delimiter ELSE <<>>)
         \o JoinLoop(c, elements, delimiter, i + 1)

\* ExecuteJoin; f.seq holds the list.
ExecuteJoin(c) ==
    LET f == Top(c)
        node == f.node
    IN  CASE f.pc = "start" ->
                IF Len(node.args) # 2
                THEN {Throw(c, "join() requires two arguments")}
                ELSE {Calculate(c, [f EXCEPT !.pc = "list"], node.args[1])}
          [] f.pc = "list" ->
                IF ~HoldsList(c.result_)
                THEN {Throw(c, "all arguments of join() must be lists")}
                ELSE {Calculate(c, [f EXCEPT !.pc = "delimiter",
                                             !.seq = c.result_],
                                node.args[2])}
          [] f.pc = "delimiter" ->
                IF ~HoldsString(c.result_) THEN {Throw(c, BadVariantAccess)}
                ELSE {Leave(MakeString(m, JoinLoop(m, m.heap[f.seq.ptr],
                                                   c.heap[c.result_.ptr],
                                                   1))) : m \in Move(c)}

\* ExecuteSplit; f.elements holds source_str and delimiter, f.branch the
\* result and f.it start; each step at "find" is one evaluation of the
\* loop's condition and, while it holds, of its body.
ExecuteSplit(c) ==
    LET f == Top(c)
        node == f.node
        NotStrings == "all arguments of split() must be strings"
        source_str == f.elements[1]
        delimiter == f.elements[2]
        end == Find(source_str, delimiter, f.it)
        Part(str) == [c EXCEPT !.heap = Append(@, str)]
        emplaced == Append(f.branch, StrV(Len(c.heap) + 1))
    IN  CASE f.pc = "start" ->
                IF Len(node.args) # 2
                THEN {Throw(c, "split() requires two arguments")}
                ELSE {Calculate(c, [f EXCEPT !.pc = "source"], node.args[1])}
          [] f.pc = "source" ->
                IF ~HoldsString(c.result_) THEN {Throw(c, NotStrings)}
                ELSE {Calculate(m, [f EXCEPT !.pc = "delimiter",
                                             !.elements =
                                                 <<c.heap[c.result_.ptr]>>],
                                node.args[2]) : m \in Move(c)}
          [] f.pc = "delimiter" ->
                IF ~HoldsString(c.result_) THEN {Throw(c, NotStrings)}
                ELSE {Goto(m, [f EXCEPT !.pc = "find", !.it = 0,
                                        !.branch = <<>>,
                                        !.elements =
                                            Append(@, c.heap[c.result_.ptr])])
                        : m \in Move(c)}
          [] f.pc = "find" ->
                IF Len(f.branch) >= MaxElements THEN {Throw(c, BadAlloc)}
                ELSE IF end # npos
                THEN {Goto(Part(SubSeq(source_str, f.it + 1, end)),
                           [f EXCEPT !.branch = emplaced,
                                     !.it = end + Len(delimiter)])}
                ELSE {Leave(MakeList(
                          Part(SubSeq(source_str, f.it + 1, Len(source_str))),
                          emplaced))}

\* std::string::replace(pos, count, str).
Replace(source_str, pos, count, str) ==
    SubSeq(source_str, 1, pos) \o str
    \o SubSeq(source_str, pos + count + 1, Len(source_str))

\* ExecuteReplace; f.elements holds source_str, old_str and new_str as they
\* are read, f.it position; each step at "find" is one evaluation of the
\* loop's condition and, while it holds, of its body.
ExecuteReplace(c) ==
    LET f == Top(c)
        node == f.node
        read == Append(f.elements, c.heap[c.result_.ptr])
        source_str == f.elements[1]
        old_str == f.elements[2]
        new_str == f.elements[3]
        replaced == Replace(source_str, f.it, Len(old_str), new_str)
    IN  IF f.pc = "start"
        THEN IF Len(node.args) # 3
             THEN {Throw(c, "replace() requires three arguments")}
             ELSE {Calculate(c, [f EXCEPT !.pc = "args", !.i = 1],
                             node.args[1])}
        ELSE IF f.pc = "args"
        THEN IF ~HoldsString(c.result_)
             THEN {Throw(c, "all arguments of replace() must be strings")}
             ELSE IF f.i < 3
             THEN {Calculate(c, [f EXCEPT !.i = f.i + 1, !.elements = read],
                             node.args[f.i + 1])}
             ELSE {Goto(c, [f EXCEPT !.pc = "find", !.elements = read,
                                     !.it = Find(read[1], read[2], 0)])}
        ELSE IF f.it = npos THEN {Leave(MakeString(c, source_str))}
        ELSE IF Len(replaced) > MaxElements THEN {Throw(c, BadAlloc)}
        ELSE {Goto(c, [f EXCEPT !.elements[1] = replaced,
                                !.it = Find(replaced, old_str,
                                            f.it + Len(new_str))])}

\* The letters ::tolower and ::toupper change, small and capital.
Cases == {<<"a", "A">>, <<"b", "B">>, <<"c", "C">>, <<"d", "D">>}

\* ::tolower and ::toupper of one character.
ToLower(ch) ==
    IF \E e \in Cases : e[2] = ch THEN (CHOOSE e \in Cases : e[2] = ch)[1]
    ELSE ch

ToUpper(ch) ==
    IF \E e \in Cases : e[1] = ch THEN (CHOOSE e \in Cases : e[1] = ch)[2]
    ELSE ch

\* ExecuteLower and ExecuteUpper.
ExecuteLower(c) ==
    LET f == Top(c)
        node == f.node
        arg == c.heap[c.result_.ptr]
    IN  IF f.pc = "start"
        THEN IF Len(node.args) # 1
             THEN Throw(c, node.name \o "() requires one argument")
             ELSE Calculate(c, [f EXCEPT !.pc = "arg"], node.args[1])
        ELSE IF ~HoldsString(c.result_)
        THEN Throw(c, node.name \o "() can be applied only to the string")
        ELSE Leave(MakeString(c, [n \in 1..Len(arg) |->
                                    IF node.name = "lower"
                                    THEN ToLower(arg[n])
                                    ELSE ToUpper(arg[n])]))

\* Visit(GlobalFunctionNode&), for the built-in functions the sample
\* programs call.
VisitGlobalFunctionNode ==
    /\ At("GlobalFunctionNode")
    /\ Top(Cur).node.name \in {"print", "println", "range", "slice", "lower",
                              "upper", "split", "join", "replace"}
    /\ \E c \in CASE Top(Cur).node.name \in {"print", "println"} ->
                     ExecutePrint(Cur)
                  [] Top(Cur).node.name = "range" -> ExecuteRange(Cur)
                  [] Top(Cur).node.name = "slice" -> ExecuteSlice(Cur)
                  [] Top(Cur).node.name \in {"lower", "upper"} ->
                     {ExecuteLower(Cur)}
                  [] Top(Cur).node.name = "split" -> ExecuteSplit(Cur)
                  [] Top(Cur).node.name = "join" -> ExecuteJoin(Cur)
                  [] Top(Cur).node.name = "replace" -> ExecuteReplace(Cur) :
          Install(c)

(***************************************************************************)
(* The programs the evaluator is run on, each as the source text and the   *)
(* tree Parser::ParseCode builds from it.                                  *)
(***************************************************************************)
Programs ==
    LET Num(n) == NumberLiteralNode(n)
        Str(t) == StringLiteralNode(t)
        Var(n) == VariableNode(n)
        Bin(l, op, r) == BinaryOperationNode(op, l, r)
        Let(n, e) == BinaryOperationNode("=", VariableNode(n), e)
        Fn(id, names, body) ==
            FunctionImplementationNode(FunctionDefinition(id, names, body))
        Call(n, args) == FunctionCallNode(n, args)
        Write(e) == GlobalFunctionNode("print", <<e>>)
        count == Bin(Var("i"), "+=", Num(1))
    IN <<
    \* 1:  i = 0 / while i < MaxIter / i += 1 / break / end while / print(i)
    RootNode(<<Let("i", Num(0)),
               WhileNode(Bin(Var("i"), "<", Num(MaxIter)), <<count, BreakNode>>),
               Write(Var("i"))>>),
    \* 2:  for x in [1, 2] / print(x) / break / print(9) / end for
    RootNode(<<ForNode("x", ListLiteralNode(<<Num(1), Num(2)>>),
                       <<Write(Var("x")), BreakNode, Write(Num(9))>>)>>),
    \* 3:  for ch in "ab" / print(ch) / break / end for
    RootNode(<<ForNode("ch", Str(<<"a", "b">>),
                       <<Write(Var("ch")), BreakNode>>)>>),
    \* 4:  f = function() / i = 0 / while i < 1 / i += 1 / return 7 /
    \*     end while / end function / print(f())
    RootNode(<<Let("f", Fn(1, <<>>,
                   <<Let("i", Num(0)),
                     WhileNode(Bin(Var("i"), "<", Num(1)),
                               <<count, ReturnNode(Num(7))>>)>>)),
               Write(Call("f", <<>>))>>),
    \* 5:  g = function() / while true / return 5 / end while / end function /
    \*     print(g())
    RootNode(<<Let("g", Fn(1, <<>>,
                   <<WhileNode(Num(1), <<ReturnNode(Num(5))>>)>>)),
               Write(Call("g", <<>>))>>),
    \* 6:  h = function() / for x in [1, 2] / return x / end for /
    \*     end function / print(h())
    RootNode(<<Let("h", Fn(1, <<>>,
                   <<ForNode("x", ListLiteralNode(<<Num(1), Num(2)>>),
                             <<ReturnNode(Var("x"))>>)>>)),
               Write(Call("h", <<>>))>>),
    \* 7:  k = function() / for ch in "ab" / return ch / end for /
    \*     end function / print(k()) / print(k())
    RootNode(<<Let("k", Fn(1, <<>>,
                   <<ForNode("ch", Str(<<"a", "b">>),
                             <<ReturnNode(Var("ch"))>>)>>)),
               Write(Call("k", <<>>)),
               Write(Call("k", <<>>))>>),
    \* 8:  print(1) / return 0 / print(2)
    RootNode(<<Write(Num(1)), ReturnNode(Num(0)), Write(Num(2))>>),
    \* 9:  i = 0 / while i < MaxIter / i += 1 / continue / print(9) /
    \*     end while / print(i)
    RootNode(<<Let("i", Num(0)),
               WhileNode(Bin(Var("i"), "<", Num(MaxIter)),
                         <<count, ContinueNode, Write(Num(9))>>),
               Write(Var("i"))>>),
    \* 10: for x in [1, 2] / continue / print(x) / end for
    RootNode(<<ForNode("x", ListLiteralNode(<<Num(1), Num(2)>>),
                       <<ContinueNode, Write(Var("x"))>>)>>),
    \* 11: for ch in "ab" / continue / print(ch) / end for
    RootNode(<<ForNode("ch", Str(<<"a", "b">>),
                       <<ContinueNode, Write(Var("ch"))>>)>>),
    \* 12: f = function() / break / end function / (f)() /
    \*     if true then / print(1) / print(2) / end if
    RootNode(<<Let("f", Fn(1, <<>>, <<BreakNode>>)),
               UnnamedFunctionCallNode(Var("f"), <<>>),
               IfNode(Num(1), <<Write(Num(1)), Write(Num(2))>>, <<>>)>>),
    \* 13: f = function() / continue / end function / f() / (f)()
    RootNode(<<Let("f", Fn(1, <<>>, <<ContinueNode>>)),
               Call("f", <<>>),
               UnnamedFunctionCallNode(Var("f"), <<>>)>>),
    \* 14: print(function(a) / return a + 1 / end function(2))
    RootNode(<<Write(UnnamedFunctionCallNode(
                   Fn(1, <<"a">>, <<ReturnNode(Bin(Var("a"), "+", Num(1)))>>),
                   <<Num(2)>>))>>),
    \* 15: x = 1 / f = function(x) / return x / end function / f(2) / print(x)
    RootNode(<<Let("x", Num(1)),
               Let("f", Fn(1, <<"x">>, <<ReturnNode(Var("x"))>>)),
               Call("f", <<Num(2)>>),
               Write(Var("x"))>>),
    \* 16: g = function(a, b) / return b / end function / print(g(5, a))
    RootNode(<<Let("g", Fn(1, <<"a", "b">>, <<ReturnNode(Var("b"))>>)),
               Write(Call("g", <<Num(5), Var("a")>>))>>),
    \* 17: f = function() / return 1 / end function / f = 0 / f()
    RootNode(<<Let("f", Fn(1, <<>>, <<ReturnNode(Num(1))>>)),
               Let("f", Num(0)),
               Call("f", <<>>)>>),
    \* 18: h = 0 / if true then / h = function() / return 1 / end function /
    \*     end if / print(h())
    RootNode(<<Let("h", Num(0)),
               IfNode(Num(1),
                      <<Let("h", Fn(1, <<>>, <<ReturnNode(Num(1))>>))>>, <<>>),
               Write(Call("h", <<>>))>>),
    \* 19: nofn()
    RootNode(<<Call("nofn", <<>>)>>),
    \* 20: v = 1 / v()
    RootNode(<<Let("v", Num(1)), Call("v", <<>>)>>),
    \* 21: f = function(a) / return a / end function / f()
    RootNode(<<Let("f", Fn(1, <<"a">>, <<ReturnNode(Var("a"))>>)),
               Call("f", <<>>)>>),
    \* 22: f = function(a) / return a / end function / print((f)())
    RootNode(<<Let("f", Fn(1, <<"a">>, <<ReturnNode(Var("a"))>>)),
               Write(UnnamedFunctionCallNode(Var("f"), <<>>))>>),
    \* 23: p = function(n) / if n < 1 then / return 0 / else / print(n) /
    \*     end if / end function / print(p(0)) / print(p(1))
    RootNode(<<Let("p", Fn(1, <<"n">>,
                   <<IfNode(Bin(Var("n"), "<", Num(1)),
                            <<ReturnNode(Num(0))>>,
                            <<Write(Var("n"))>>)>>)),
               Write(Call("p", <<Num(0)>>)),
               Write(Call("p", <<Num(1)>>))>>),
    \* 24: s = "ab" + "c" / print(s - "c") / print([s, nil, -1] + [not s] * 2) /
    \*     println(s * 2 < "b")
    RootNode(<<Let("s", Bin(Str(<<"a", "b">>), "+", Str(<<"c">>))),
               Write(Bin(Var("s"), "-", Str(<<"c">>))),
               Write(Bin(ListLiteralNode(<<Var("s"), NilLiteralNode,
                                           UnaryOperationNode("-", Num(1))>>),
                         "+",
                         Bin(ListLiteralNode(
                                 <<UnaryOperationNode("not", Var("s"))>>),
                             "*", Num(2)))),
               GlobalFunctionNode("println",
                   <<Bin(Bin(Var("s"), "*", Num(2)), "<", Str(<<"b">>))>>)>>),
    \* 25: a = [1] / print(a == a) / print(a < [1]) / print(-7 % 3) /
    \*     print(+1 >= nil)
    RootNode(<<Let("a", ListLiteralNode(<<Num(1)>>)),
               Write(Bin(Var("a"), "==", Var("a"))),
               Write(Bin(Var("a"), "<", ListLiteralNode(<<Num(1)>>))),
               Write(Bin(UnaryOperationNode("-", Num(7)), "%", Num(3))),
               Write(Bin(UnaryOperationNode("+", Num(1)), ">=",
                         NilLiteralNode))>>),
    \* 26: print(y)
    RootNode(<<Write(Var("y"))>>),
    \* 27: for x in 1 end for
    RootNode(<<ForNode("x", Num(1), <<>>)>>),
    \* 28: print(-"a")
    RootNode(<<Write(UnaryOperationNode("-", Str(<<"a">>)))>>),
    \* 29: 1 = 2
    RootNode(<<Bin(Num(1), "=", Num(2))>>),
    \* 30: print(1 + "a")
    RootNode(<<Write(Bin(Num(1), "+", Str(<<"a">>)))>>),
    \* 31: print(3)()
    RootNode(<<UnnamedFunctionCallNode(Write(Num(3)), <<>>)>>),
    \* 32: while nil end while / for x in [] end for / for ch in "a" end for /
    \*     for x in [1] end for / print()
    RootNode(<<WhileNode(NilLiteralNode, <<>>),
               ForNode("x", ListLiteralNode(<<>>), <<>>),
               ForNode("ch", Str(<<"a">>), <<>>),
               ForNode("x", ListLiteralNode(<<Num(1)>>), <<>>),
               GlobalFunctionNode("print", <<>>)>>)
    >>

\* The operands of the programs `A and B` and `A or B`:
\* nil, 0, 2, "", "a", [], [1] and a function.
Operand ==
    <<NilLiteralNode, NumberLiteralNode(0), NumberLiteralNode(2),
      StringLiteralNode(<<>>), StringLiteralNode(<<"a">>),
      ListLiteralNode(<<>>), ListLiteralNode(<<NumberLiteralNode(1)>>),
      FunctionImplementationNode(FunctionDefinition(1, <<>>, <<>>))>>

(***************************************************************************)
(* The sources interpret() is run on from the text, as the words the lexer *)
(* cuts them into.                                                         *)
(***************************************************************************)
\* The words a condition of the if sources is one of.
Conditions == {"0", "2", "nil", "\"\"", "\"a\""}

\* if p = A then     with A, B and C three of Conditions
\*     print(1)
\*     print(5)
\* elseif q = B then
\*     print(2)
\* elseif r = C then
\*     print(3)
\* else
\*     print(4)
\* end if
\* print(9)
IfChain(A, B, C) ==
    Words(<<"if", "p", "=", A, "then", "\n",
            "print", "(", "1", ")", "\n",
            "print", "(", "5", ")", "\n",
            "elseif", "q", "=", B, "then", "\n",
            "print", "(", "2", ")", "\n",
            "elseif", "r", "=", C, "then", "\n",
            "print", "(", "3", ")", "\n",
            "else", "\n",
            "print", "(", "4", ")", "\n",
            "end", "if", "\n",
            "print", "(", "9", ")", "\n">>)

\* if p = A then print(1) elseif q = B then print(2) end if
\* print(9)
IfElseIf(A, B) ==
    Words(<<"if", "p", "=", A, "then", "print", "(", "1", ")",
            "elseif", "q", "=", B, "then", "print", "(", "2", ")",
            "end", "if", "\n",
            "print", "(", "9", ")", "\n">>)

\* if A then
\*     print(1)
\* end if
\* print(9)
IfThen(A) ==
    Words(<<"if", A, "then", "\n", "print", "(", "1", ")", "\n",
            "end", "if", "\n", "print", "(", "9", ")", "\n">>)

\* if A then
\*     print(1)
\* else
\*     print(4)
\*     print(5)
\* end if
\* print(9)
IfElse(A) ==
    Words(<<"if", A, "then", "\n", "print", "(", "1", ")", "\n",
            "else", "\n", "print", "(", "4", ")", "\n",
            "print", "(", "5", ")", "\n",
            "end", "if", "\n", "print", "(", "9", ")", "\n">>)

\* The sources of each form, by the words that vary.
IfChains ==
    [A \in Conditions, B \in {"0", "2"}, C \in {"nil", "\"a\""} |->
        IfChain(A, B, C)]

IfElseIfs == [A \in {"0", "2"}, B \in Conditions |-> IfElseIf(A, B)]

IfThens == [A \in Conditions |-> IfThen(A)]

IfElses == [A \in Conditions |-> IfElse(A)]

\* The words of an integer: its digit, after the sign when it is negative.
Numeral(n) == IF n < 0 THEN <<"-", Digits[1 - n]>> ELSE <<Digits[n + 1]>>

\* The largest bound of the range() sources.
MaxEnd == 3

\* The steps of the range() sources.
Steps == {-2, -1, 1, 2}

\* n = 0
\* for i in range(a, b, s)
\*     println(i)
\*     n += 1
\* end for
\* print(n)
RangeLoop(a, b, s) ==
    Words(<<"n", "=", "0", "\n", "for", "i", "in", "range", "(">>
          \o Numeral(a) \o <<",">> \o Numeral(b) \o <<",">> \o Numeral(s)
          \o <<")", "\n",
               "println", "(", "i", ")", "\n",
               "n", "+=", "1", "\n",
               "end", "for", "\n",
               "print", "(", "n", ")", "\n">>)

\* The loops whose step points from a towards b.
Aligned == {r \in (-1..MaxEnd) \X (-1..MaxEnd) \X Steps :
              (r[2] - r[1]) * r[3] > 0}

\* Each with its source.
RangeLoops == {<<r, RangeLoop(r[1], r[2], r[3])>> : r \in Aligned}

Range(f) == {f[x] : x \in DOMAIN f}

\* The expression sources: the atoms a, b, c, ... joined by one or two of
\* the binary operators, by up to MaxOperators operators with one or two of
\* each level among them, and, with a prefix operator in front of some of
\* the atoms, by up to MaxPrefixed operators.
MaxOperators == 3

MaxPrefixed == 2

Atoms == <<"a", "b", "c", "d", "e", "f">>

BinaryOperators == {e[1] : e \in kOperators} \cup {"and", "or"}

LevelOperators == {"=", "+=", "or", "==", "+", "-", "*", "^"}

PrefixedOperators == {"=", "+", "^"}

\* The prefix in front of an atom; "" is none.
Prefixes == {"", "not", "-"}

RECURSIVE OperatorSequences(_, _)
OperatorSequences(operators, n) ==
    IF n = 0 THEN {<<>>}
    ELSE {Append(q, o) : q \in OperatorSequences(operators, n - 1),
                         o \in operators}

\* The words of the line: the i-th atom after its prefix, the i-th operator
\* and the atoms after it.
RECURSIVE Joined(_, _, _)
Joined(operators, prefixes, i) ==
    (IF prefixes[i] = "" THEN <<>> ELSE <<prefixes[i]>>) \o <<Atoms[i]>>
    \o (IF i > Len(operators) THEN <<"\n">>
        ELSE <<operators[i]>> \o Joined(operators, prefixes, i + 1))

ExpressionSources ==
    UNION {{Words(Joined(q, [i \in 1..(n + 1) |-> ""], 1)) :
              q \in OperatorSequences(BinaryOperators, n)} : n \in 1..2}
    \cup UNION {{Words(Joined(q, [i \in 1..(n + 1) |-> ""], 1)) :
                   q \in OperatorSequences(LevelOperators, n)} :
                n \in 3..MaxOperators}
    \cup UNION {{Words(Joined(q, p, 1)) :
                   q \in OperatorSequences(PrefixedOperators, n),
                   p \in [1..(n + 1) -> Prefixes]} :
                n \in 1..MaxPrefixed}

\* The longest list and the longest string a slice source slices.
MaxLen == 3

\* The steps of the three-argument slices.
Strides == -1..2

\* The words of the list literal [1, 2, ..., n].
RECURSIVE ListWords(_)
ListWords(n) ==
    IF n = 0 THEN <<"[", "]">>
    ELSE SubSeq(ListWords(n - 1), 1, Len(ListWords(n - 1)) - 1)
         \o (IF n = 1 THEN <<>> ELSE <<",">>) \o <<Digits[n + 1], "]">>

\* The string literal of the first n letters.
StringWord(n) == <<"\"\"", "\"a\"", "\"ab\"", "\"abc\"", "\"abcd\"">>[n + 1]

\* The slice arguments, with the colons between them.
RECURSIVE Indices(_)
Indices(indices) ==
    Numeral(Head(indices))
    \o (IF Len(indices) = 1 THEN <<>> ELSE <<":">> \o Indices(Tail(indices)))

\* x = [1, 2, ..., n]      or      x = "ab..."     of n letters
\* print(x[i:j:k])                 print(x[i:j:k])
\* for a slice s = <<iterable, n, indices>>, of one to three indices.
SliceSource(s) ==
    Words(<<"x", "=">>
          \o (IF s[1] = "list" THEN ListWords(s[2]) ELSE <<StringWord(s[2])>>)
          \o <<"\n", "print", "(", "x", "[">> \o Indices(s[3])
          \o <<"]", ")", "\n">>)

\* The slices: every index of a list and one step past both ends, and for
\* lists and strings the slices from i to j with and without a step.
Slices ==
    UNION {{<<"list", n, <<i>>>> : i \in (-n - 1)..n}
           \cup {<<x, n, <<i, j>>>> :
                   x \in {"list", "string"}, i \in 0..n, j \in 0..n}
           \cup {<<x, n, <<i, j, k>>>> :
                   x \in {"list", "string"}, i \in 0..n, j \in 0..n,
                   k \in Strides} : n \in 0..MaxLen}

\* Each of those with i <= j, with its source.
SliceSources ==
    {<<s, SliceSource(s)>> :
       s \in {s \in Slices : Len(s[3]) = 1 \/ s[3][1] <= s[3][2]}}

\* print([1, .., n] op [1, .., m]) for every comparison of two list literals.
ListComparisons ==
    {Words(<<"print", "(">> \o ListWords(n) \o <<op>> \o ListWords(m)
           \o <<")", "\n">>) :
       n \in 0..MaxLen, m \in 0..MaxLen, op \in CompareOperations}

\* The strings of up to n of the characters a and b.
Strings(n) == UNION {OperatorSequences({"a", "b"}, k) : k \in 0..n}

\* s = "..."
\* d = "..."
\* print(join(split(s, d), d) == s)
SplitJoinSource(s, d) ==
    Words(<<"s", "=">>) \o <<Token("kString", s)>>
    \o Words(<<"\n", "d", "=">>) \o <<Token("kString", d)>>
    \o Words(<<"\n", "print", "(", "join", "(", "split", "(", "s", ",", "d",
               ")", ",", "d", ")", "==", "s", ")", "\n">>)

\* d occurs at the start or at the end of s.
StartsOrEnds(s, d) ==
    EndsWith(s, d) \/ (Len(d) <= Len(s) /\ SubSeq(s, 1, Len(d)) = d)

\* An occurrence of d can overlap another: a proper prefix of d ends d.
OverlapsItself(d) ==
    \E k \in 1..(Len(d) - 1) : SubSeq(d, 1, k) = SubSeq(d, Len(d) - k + 1, Len(d))

\* The strings s and the non-empty delimiters d that neither start nor end
\* s nor overlap themselves, each pair with its source.
SplitJoins ==
    {<<p, SplitJoinSource(p[1], p[2])>> :
       p \in {p \in Strings(MaxLen) \X (Strings(2) \ {<<>>}) :
                ~StartsOrEnds(p[1], p[2]) /\ ~OverlapsItself(p[2])}}

\* The calls and operations on the string variables s, t and d and the
\* list l, as the words of an expression.
StringOperations ==
    {<<"split", "(", "s", ",", "d", ")">>,
     <<"join", "(", "l", ",", "d", ")">>,
     <<"replace", "(", "s", ",", "d", ",", "t", ")">>,
     <<"lower", "(", "s", ")">>, <<"upper", "(", "s", ")">>,
     <<"s", "+", "d">>, <<"s", "-", "d">>, <<"s", "*", "2">>,
     <<"s", "==", "d">>, <<"s", "<", "d">>}

\* s = "..."
\* t = s
\* d = "..."
\* l = [s, d]
\* x = split(s, d)         or another of the string operations
StringSource(s, d, operation) ==
    Words(<<"s", "=">>) \o <<Token("kString", s)>>
    \o Words(<<"\n", "t", "=", "s", "\n", "d", "=">>)
    \o <<Token("kString", d)>>
    \o Words(<<"\n", "l", "=", "[", "s", ",", "d", "]", "\n", "x", "=">>
             \o operation \o <<"\n">>)

StringSources ==
    {<<p, StringSource(p[1], p[2], p[3])>> :
       p \in Strings(2) \X Strings(1) \X StringOperations}

\* The most blank lines in a block of BlankLines.
MaxBlank == 2

\* n line ends.
EndLines(n) == [k \in 1..n |-> "\n"]

\* The sources of C26: an if, a while and a for whose body is empty or one
\* print, with 0..MaxBlank blank lines behind the header and before the end,
\* each with the same block without blank lines (an empty body on one line).
BlockHeaders ==
    {<<"if", <<"if", "nil", "then">>>>, <<"while", <<"while", "nil">>>>,
     <<"for", <<"for", "i", "in", "[", "]">>>>}

BlankLines ==
    {<<Words(h[2] \o <<"end", h[1]>>),
       Words(h[2] \o EndLines(n) \o <<"end", h[1]>>)>> :
         h \in BlockHeaders, n \in 1..(MaxBlank + 1)}
    \cup
    {<<Words(h[2] \o <<"\n", "print", "(", "1", ")", "\n", "end", h[1]>>),
       Words(h[2] \o EndLines(a + 1) \o <<"print", "(", "1", ")">>
             \o EndLines(b + 1) \o <<"end", h[1]>>)>> :
         h \in BlockHeaders, a \in 0..MaxBlank, b \in 0..MaxBlank}

\* The sources of C28: a unary operation on a call that prints 1.
UnarySources ==
    {Words(<<"f", "=", "function", "(", ")", "print", "(", "1", ")", "\n",
             "return", "1", "end", "function", "\n",
             "x", "=", op, "f", "(", ")">>) : op \in {"-", "+", "not"}}
    \cup {Words(<<"x", "=", "not", "print", "(", "1", ")">>)}

\* The most prints before the error of a source of PrintThenErrors.
MaxPrints == 2

\* print(1) on each of n lines.
RECURSIVE Prints(_)
Prints(n) ==
    IF n = 0 THEN <<>>
    ELSE Prints(n - 1) \o Words(<<"print", "(", "1", ")", "\n">>)

\* What does not parse: words the parser rejects and a token the lexer has
\* found incorrect.
ParseErrors ==
    {Words(<<")">>), Words(<<"x", "=">>), Words(<<"print", "(", "2">>),
     Words(<<"if", "1", "then", "\n", "print", "(", "2", ")", "\n">>),
     Words(<<"while", "1", "\n", "print", "(", "2", ")", "\n", "end">>),
     Words(<<"x", "=", "1">>) \o <<Token("kIncorrect", 0)>>,
     <<Token("kIncorrect", 0)>>}

\* The sources of C30: 1..MaxPrints valid prints, then what does not parse,
\* then nothing or another valid print.
PrintThenErrors ==
    {Prints(n) \o e \o rest :
        n \in 1..MaxPrints, e \in ParseErrors,
        rest \in {<<>>, Words(<<"\n", "print", "(", "3", ")", "\n">>)}}

IfSources == Range(IfChains) \cup Range(IfElseIfs) \cup Range(IfThens)
             \cup Range(IfElses)

Sources == IfSources \cup {e[2] : e \in RangeLoops} \cup ExpressionSources
           \cup {e[2] : e \in SliceSources} \cup ListComparisons
           \cup {e[2] : e \in SplitJoins} \cup {e[2] : e \in StringSources}
           \cup {e[1] : e \in BlankLines} \cup {e[2] : e \in BlankLines}
           \cup UnarySources \cup PrintThenErrors

\* interpret() has read the text; the evaluator is the one EvalVisitor's
\* constructor makes.  A sample program given as its tree starts where
\* ParseCode has returned that tree.
Init ==
    /\ \/ /\ \/ \E k \in 1..Len(Programs) : ast = Programs[k]
             \/ \E a, b \in 1..Len(Operand), op \in {"and", "or"} :
                    ast = RootNode(<<BinaryOperationNode(op, Operand[a],
                                                        Operand[b])>>)
          /\ code = <<>>
          /\ stack = <<Frame(ast, 0)>>
          /\ status = "running"
       \/ /\ code \in Sources
          /\ ast = RootNode(<<>>)
          /\ stack = <<>>
          /\ status = "parsing"
    /\ result_ = NilV
    /\ scopes_ = <<>>
    /\ function_names_ = <<>>
    /\ control_flow_ = "Default"
    /\ out_ = <<>>
    /\ heap = <<>>
    /\ what = ""
    /\ lexer = NoLexer

\* The try block of interpret() up to ast->Calculate(visitor): ParseCode
\* builds the tree, or throws and interpret() writes e.what().
interpret ==
    /\ status = "parsing"
    /\ LET r == ParseCode(code)
       IN  IF Thrown(r)
           THEN /\ Install(Throw(Cur, r.err))
           ELSE /\ ast' = r.node
                /\ stack' = <<Frame(r.node, 0)>>
                /\ status' = "running"
                /\ UNCHANGED <<result_, scopes_, function_names_,
                               control_flow_, out_, heap, what, code,
                               lexer>>

Next ==
    \/ interpret
    \/ VisitNumberLiteralNode
    \/ VisitStringLiteralNode
    \/ VisitListLiteralNode
    \/ VisitNilLiteralNode
    \/ VisitVariableNode
    \/ VisitBinaryOperationNode
    \/ VisitUnaryOperationNode
    \/ VisitIfNode
    \/ VisitWhileNode
    \/ VisitForNode
    \/ VisitRootNode
    \/ VisitGlobalFunctionNode
    \/ VisitFunctionCallNode
    \/ VisitUnnamedFunctionCallNode
    \/ VisitFunctionImplementationNode
    \/ VisitBreakNode
    \/ VisitContinueNode
    \/ VisitReturnNode

Spec == Init /\ [][Next]_vars

(***************************************************************************)
(* The multiplication of a list by a number that need not be whole.  Here  *)
(* the number literal and the result register hold twice the number: the   *)
(* evaluator stands in Visit(BinaryOperationNode&) of `l * n` with both    *)
(* operands evaluated, l the only list of the heap and n = result_ / 2.    *)
(***************************************************************************)
\* The largest multiplier, in halves.
MaxTwice == 6

\* The lists of at most MaxLen elements, each 1 or 2.
Lists ==
    UNION {OperatorSequences({NumV(1), NumV(2)}, n) : n \in 0..MaxLen}

InitMult ==
    \E l \in Lists, twice \in -1..MaxTwice :
        /\ ast = RootNode(<<BinaryOperationNode("*", VariableNode("l"),
                                                NumberLiteralNode(twice))>>)
        /\ stack = <<[Frame(ast, 0) EXCEPT !.pc = "statements", !.i = 1],
                     [Frame(ast.statements[1], 1) EXCEPT
                        !.pc = "rhs", !.lhs = ListV(1)]>>
        /\ result_ = NumV(twice)
        /\ scopes_ = <<[x \in {"l"} |-> ListV(1)]>>
        /\ function_names_ = <<{}>>
        /\ control_flow_ = "Default"
        /\ out_ = <<>>
        /\ heap = <<l>>
        /\ status = "running"
        /\ what = ""
        /\ code = <<>>
        /\ lexer = NoLexer

\* CalculateMult(lhs, rhs) for the list lhs and the number result_ / 2.
MultiplyByHalves ==
    /\ At("BinaryOperationNode")
    /\ Top(Cur).pc = "rhs"
    /\ Install(LeaveUnlessThrown(
           MultiplyList(Cur, heap[Top(Cur).lhs.ptr], result_.n, 2)))

NextMult == MultiplyByHalves

MultSpec == InitMult /\ [][NextMult]_vars

(***************************************************************************)
(* The lexer on the characters of a text.  current_symbol_ is the offset   *)
(* of the iterator from source_str_.begin(); a getter returns NoToken for   *)
(* std::nullopt, else the token and the offset it leaves.                   *)
(***************************************************************************)
\* The most pieces (spaces, block comments) before the token of a text.
MaxPieces == 3

Alpha ==
    {"a", "b", "c", "d", "e", "f", "g", "h", "i", "j", "k", "l", "m", "n",
     "o", "p", "q", "r", "s", "t", "u", "v", "w", "x", "y", "z", "A", "B",
     "C", "D", "E", "F", "G", "H", "I", "J", "K", "L", "M", "N", "O", "P",
     "Q", "R", "S", "T", "U", "V", "W", "X", "Y", "Z"}

IsDigit(ch) == \E d \in 1..Len(Digits) : Digits[d] = ch

IsEOF(str, at) == at >= Len(str)

IsEndLine(str, at) == ~IsEOF(str, at) /\ str[at + 1] = "\n"

IsNumberSymbol(ch) == IsDigit(ch) \/ ch = "e" \/ ch = "."

NumberSymbols == {Digits[d] : d \in 1..Len(Digits)} \cup {"e", "."}

\* std::find(first, end, ch) as an offset.
RECURSIVE StdFind(_, _, _)
StdFind(str, first, ch) ==
    IF first >= Len(str) THEN Len(str)
    ELSE IF str[first + 1] = ch THEN first
    ELSE StdFind(str, first + 1, ch)

RECURSIVE SkipSpaces(_, _)
SkipSpaces(str, at) ==
    IF ~IsEOF(str, at) /\ ~IsEndLine(str, at) /\ str[at + 1] = " "
    THEN SkipSpaces(str, at + 1)
    ELSE at

UnclosedComment == "Unclosed comment"

\* The while loop of SkipComments with the iterator on a `*` or at the end:
\* the offset behind the comment, or -1 where the loop ends and it throws.
RECURSIVE SkipBlock(_, _)
SkipBlock(str, at) ==
    IF at + 1 < Len(str)
    THEN IF str[at + 2] = "/" THEN at + 2
         ELSE SkipBlock(str, StdFind(str, at + 1, "*"))
    ELSE -1

SkipComments(str, at) ==
    IF at + 1 >= Len(str) THEN at
    ELSE IF <<str[at + 1], str[at + 2]>> = <<"/", "/">>
    THEN StdFind(str, at + 2, "\n")
    ELSE IF <<str[at + 1], str[at + 2]>> # <<"/", "*">> THEN at
    ELSE SkipBlock(str, StdFind(str, at + 2, "*"))

\* The offset behind the longest run of characters of chars from at: the
\* loops of the getters.
RECURSIVE Run(_, _, _)
Run(str, at, chars) ==
    IF ~IsEOF(str, at) /\ str[at + 1] \in chars
    THEN Run(str, at + 1, chars)
    ELSE at

GetDelimiter(str, at) ==
    LET it == {e \in kDelimiters : e[1] = str[at + 1]}
    IN  IF it = {} THEN NoToken
        ELSE Got(Token((CHOOSE e \in it : TRUE)[2], str[at + 1]), at + 1)

GetOperator(str, at) ==
    LET two == IF at + 1 # Len(str) /\ ~IsEndLine(str, at)
               THEN {e \in kOperators : e[1] = str[at + 1] \o str[at + 2]}
               ELSE {}
        one == {e \in kOperators : e[1] = str[at + 1]}
    IN  IF two # {}
        THEN LET op == CHOOSE e \in two : TRUE
             IN  Got(Token(op[2], op[1]), at + 2)
        ELSE IF one # {}
        THEN LET op == CHOOSE e \in one : TRUE
             IN  Got(Token(op[2], op[1]), at + 1)
        ELSE NoToken

\* The character an escape sequence of a string literal stands for; "\\0" is
\* the character of code 0.
Escaped(ch) ==
    CASE ch = "n" -> "\n"
      [] ch = "t" -> "\t"
      [] ch = "r" -> "\r"
      [] ch = "0" -> "\\0"
      [] OTHER -> ch

\* The while loop of GetStringLiteral with str_ read so far.
RECURSIVE StringLoop(_, _, _)
StringLoop(str, at, str_) ==
    IF IsEOF(str, at) THEN Got(Token("kIncorrect", str_), at)
    ELSE IF str[at + 1] = "\"" THEN Got(Token("kString", str_), at + 1)
    ELSE IF str[at + 1] = "\\"
    THEN IF IsEOF(str, at + 1) THEN Got(Token("kIncorrect", str_), at + 1)
         ELSE StringLoop(str, at + 2, Append(str_, Escaped(str[at + 2])))
    ELSE StringLoop(str, at + 1, Append(str_, str[at + 1]))

GetStringLiteral(str, at) ==
    IF str[at + 1] # "\"" THEN NoToken ELSE StringLoop(str, at + 1, <<>>)

\* The number a run of digits writes.
RECURSIVE Decimal(_)
Decimal(str) ==
    IF str = <<>> THEN 0
    ELSE 10 * Decimal(SubSeq(str, 1, Len(str) - 1))
         + (CHOOSE d \in 1..Len(Digits) : Digits[d] = str[Len(str)]) - 1

\* std::stod on a run of number symbols that starts with a digit reads the
\* digits, a `.` with the digits behind it and an `e` with the digits behind
\* it, if there are any; nullopt unless that is the whole run.  The value of
\* a run of digits is the number, of any other run digits * 10^-scale (the
\* literals of the texts stay far inside the range of a double).
ParseDoubleFromStr(str) ==
    LET digit == {Digits[d] : d \in 1..Len(Digits)}
        whole == Run(str, 0, digit)
        fraction == IF whole < Len(str) /\ str[whole + 1] = "."
                    THEN Run(str, whole + 1, digit) ELSE whole
        exponent == IF fraction < Len(str) /\ str[fraction + 1] = "e"
                       /\ Run(str, fraction + 1, digit) > fraction + 1
                    THEN Run(str, fraction + 1, digit) ELSE fraction
        digits == SubSeq(str, 1, whole)
                  \o SubSeq(str, whole + 2, fraction)
        power == Decimal(SubSeq(str, fraction + 2, exponent))
    IN  IF str = <<>> \/ exponent # Len(str) THEN NoToken
        ELSE IF fraction = whole /\ exponent = fraction
        THEN [type |-> "double", value |-> Decimal(digits)]
        ELSE [type |-> "double",
              value |-> [digits |-> Decimal(digits),
                         scale |-> (fraction - whole - 1) - power]]

GetNumberLiteral(str, at) ==
    IF ~IsDigit(str[at + 1]) THEN NoToken
    ELSE LET end == Run(str, at, NumberSymbols)
             value == ParseDoubleFromStr(SubSeq(str, at + 1, end))
         IN  IF value.type = "nullopt" THEN NoToken
             ELSE Got(Token("kNumber", value.value), end)

GetKeyWord(str, at) ==
    LET end == Run(str, at, Alpha)
        it == {e \in kKeyWords : e[1] = Text(SubSeq(str, at + 1, end))}
    IN  IF it = {} THEN NoToken
        ELSE LET e == CHOOSE e \in it : TRUE IN Got(Token(e[2], e[1]), end)

GetIdentifier(str, at) ==
    LET end == Run(str, at, Alpha \cup {Digits[d] : d \in 1..Len(Digits)}
                            \cup {"_"})
        word == SubSeq(str, at + 1, end)
    IN  IF word = <<>> \/ IsDigit(word[1]) \/ word[1] = "_" THEN NoToken
        ELSE Got(Token("kIdentifier", Text(word)), end)

\* Lexer::GetNextToken() of the lexer l: the lexer behind the token, or the
\* lexer that has thrown what.
LexerGetNextToken(l) ==
    LET str == l.source_str_
        at == SkipComments(str, SkipSpaces(str, l.current_symbol_))
        token == CASE GetDelimiter(str, at).type # "nullopt" -> GetDelimiter(str, at)
                   [] GetOperator(str, at).type # "nullopt" -> GetOperator(str, at)
                   [] GetStringLiteral(str, at).type # "nullopt" ->
                          GetStringLiteral(str, at)
                   [] GetNumberLiteral(str, at).type # "nullopt" ->
                          GetNumberLiteral(str, at)
                   [] GetKeyWord(str, at).type # "nullopt" -> GetKeyWord(str, at)
                   [] GetIdentifier(str, at).type # "nullopt" ->
                          GetIdentifier(str, at)
                   [] OTHER -> Got(Token("kIncorrect", at), Len(str))
    IN  IF at = -1 THEN [l EXCEPT !.what = UnclosedComment]
        ELSE IF IsEOF(str, at)
        THEN [l EXCEPT !.current_symbol_ = at, !.token = Token("kEOF", "")]
        ELSE IF IsEndLine(str, at)
        THEN [l EXCEPT !.current_symbol_ = at + 1,
                       !.token = Token("kEndLine", "")]
        ELSE [l EXCEPT !.current_symbol_ = token.at, !.token = token.token]

LexerGetPeek(l) ==
    LET next == LexerGetNextToken(l)
    IN  IF next.what # "" THEN next
        ELSE [next EXCEPT !.current_symbol_ = l.current_symbol_]

\* The texts: at most MaxPieces spaces and block comments, then a line
\* comment or none, then what writes one token or nothing; each with the
\* type of the token that stands behind the spaces and comments.
Pieces == {<<" ">>, <<"/", "*", "c", "*", "/">>}

LineComment == <<"/", "/", "c">>

RECURSIVE Skipped(_)
Skipped(n) ==
    IF n = 0 THEN {<<>>}
    ELSE Skipped(n - 1) \cup {s \o p : s \in Skipped(n - 1), p \in Pieces}

TokenTexts ==
    {<<"kIdentifier", <<"x">>>>, <<"kNumber", <<"1">>>>,
     <<"kLParen", <<"(">>>>, <<"kPlus", <<"+">>>>, <<"kDivide", <<"/">>>>,
     <<"kIf", <<"i", "f">>>>, <<"kString", <<"\"", "a", "\"">>>>,
     <<"kEndLine", <<"\n">>>>, <<"kEOF", <<>>>>}

LexSources ==
    {<<t[1], s \o t[2]>> : s \in Skipped(MaxPieces), t \in TokenTexts}
    \cup {<<IF t[1] = "kEndLine" THEN "kEndLine" ELSE "kEOF",
            s \o LineComment \o t[2]>> :
              s \in Skipped(MaxPieces), t \in TokenTexts}

\* Texts whose block comment has no end.
Unclosed == {<<"/", "*">>, <<"/", "*", "c">>, <<" ", "/", "*", "*">>}

InitLex ==
    /\ lexer \in {Lexer(e[2]) : e \in LexSources} \cup
                 {Lexer(str) : str \in Unclosed}
    /\ ast = RootNode(<<>>)
    /\ stack = <<>>
    /\ result_ = NilV
    /\ scopes_ = <<>>
    /\ function_names_ = <<>>
    /\ control_flow_ = "Default"
    /\ out_ = <<>>
    /\ heap = <<>>
    /\ status = "lexing"
    /\ what = ""
    /\ code = <<>>

\* A call of GetNextToken() on a lexer that has not thrown.
CallGetNextToken ==
    /\ status = "lexing"
    /\ lexer.what = ""
    /\ lexer' = LexerGetNextToken(lexer)
    /\ UNCHANGED <<ast, stack, result_, scopes_, function_names_,
                   control_flow_, out_, heap, status, what, code>>

CallGetPeek ==
    /\ status = "lexing"
    /\ lexer.what = ""
    /\ lexer' = LexerGetPeek(lexer)
    /\ UNCHANGED <<ast, stack, result_, scopes_, function_names_,
                   control_flow_, out_, heap, status, what, code>>

NextLex == CallGetNextToken \/ CallGetPeek

LexSpec == InitLex /\ [][NextLex]_vars

(***************************************************************************)
(* Properties.                                                             *)
(***************************************************************************)
Running == status = "running" /\ Len(stack) > 0
TopFrame == stack[Len(stack)]

\* The innermost handler returns to its caller in this step.
Returns == Len(stack') = Len(stack) - 1 /\ status' \in {"running", "done"}

\* A statement of a loop body has just come back to the loop's handler.
BodyReturned ==
    /\ Running
    /\ TopFrame.node.type \in {"WhileNode", "ForNode"}
    /\ TopFrame.pc \in {"statements", "list_statements", "string_statements"}

\* The loop's handler is at the head of its loop, having called nothing.
AtLoopHead ==
    /\ Len(stack') = Len(stack)
    /\ stack'[Len(stack)].pc \in {"start", "list", "string"}

\* The loop's handler is done: it returns, or it is at the head of a for loop
\* whose sequence has no element left.
LoopEnds ==
    \/ Returns
    \/ /\ AtLoopHead
       /\ TopFrame.node.type = "ForNode"
       /\ LET f == stack'[Len(stack)]
          IN  f.it > Len(heap'[f.seq.ptr])

CallTypes == {"FunctionCallNode", "UnnamedFunctionCallNode"}
BlockTypes == {"IfNode", "WhileNode", "ForNode"} \cup CallTypes

\* C1: once a break has executed in the body of a while or for loop, the
\* loop statement finishes there and then, with control_flow_ Default: the
\* condition is not evaluated again, no further element is iterated and no
\* further statement of the body runs.
C1_BreakExitsLoop ==
    [][(BodyReturned /\ control_flow_ = "Break")
          => (LoopEnds /\ control_flow_' = "Default")]_vars

\* C2: once a return has executed in the body of a while or for loop, the
\* loop statement finishes there and then and the Return flag goes on to the
\* enclosing call: no condition is evaluated and no statement of a later
\* iteration runs.
C2_ReturnExitsLoop ==
    [][(BodyReturned /\ control_flow_ = "Return")
          => (LoopEnds /\ control_flow_' = "Return")]_vars

\* C3: the result of a function call, named or unnamed, is the value of the
\* return expression that fired during the call, wherever that return is
\* nested in the body, and Nil when no return fired.
C3_CallResultIsReturnValue ==
    [][(Running /\ TopFrame.node.type \in CallTypes /\ Returns)
          => result_' = IF TopFrame.fired # <<>> THEN TopFrame.fired[1]
                        ELSE NilV]_vars

\* C4: a return executed at top level ends the root: when a top-level
\* statement comes back with the Return flag up, Visit(RootNode&) returns
\* without running any statement that follows, so the output stays as it is.
C4_TopLevelReturnEndsRoot ==
    [][(/\ Running
        /\ TopFrame.node.type = "RootNode"
        /\ control_flow_ = "Return")
          => (status' = "done" /\ out_' = out_)]_vars

\* C5: once a continue has executed in a loop body (while, for over a list,
\* for over a string), the rest of the body is skipped for that iteration:
\* control_flow_ is reset to Default and the loop goes to its next iteration
\* without running another statement of this one.
C5_ContinueSkipsRest ==
    [][(BodyReturned /\ control_flow_ = "Continue")
          => (control_flow_' = "Default" /\ AtLoopHead)]_vars

\* C6: `a and b` is 1 when both operands coerce to true and 0 otherwise,
\* `a or b` is 1 when at least one coerces to true and 0 otherwise; the
\* result is a Number, never the operand itself.
C6_LogicalResultIsBoolean ==
    [][(/\ Running
        /\ TopFrame.node.type = "BinaryOperationNode"
        /\ TopFrame.node.operation \in {"and", "or"}
        /\ TopFrame.pc = "rhs")
          => result_' =
                 Boolean(IF TopFrame.node.operation = "and"
                         THEN GetBool(Cur, TopFrame.lhs) /\ GetBool(Cur, result_)
                         ELSE GetBool(Cur, TopFrame.lhs) \/ GetBool(Cur, result_))
      ]_vars

\* The outermost if, while, for or call that is running.
OutermostBlock ==
    stack[CHOOSE d \in 1..Len(stack) :
              /\ stack[d].node.type \in BlockTypes
              /\ \A e \in 1..(d - 1) : stack[e].node.type \notin BlockTypes]

\* C7: the scope stack is balanced: when an if, while, for or function call
\* is left, by its normal end, by break, continue or return, the scope depth
\* is what it was when the construct was entered; and when a runtime error
\* leaves every running construct, the depth is what it was when the
\* outermost of them was entered.
C7_ScopeStackBalanced ==
    [][/\ (Running /\ TopFrame.node.type \in BlockTypes /\ Returns)
          => Len(scopes_') = TopFrame.depth
       /\ (/\ Running
           /\ \E d \in 1..Len(stack) : stack[d].node.type \in BlockTypes
           /\ status' = "error")
          => Len(scopes_') = OutermostBlock.depth]_vars

\* C8: after a function call, named or unnamed, has finished, control_flow_
\* is Default whatever ran in its body: a Break or Continue flag set in the
\* callee does not reach the caller.
C8_CallResetsControlFlow ==
    [][(Running /\ TopFrame.node.type \in CallTypes /\ Returns)
          => control_flow_' = "Default"]_vars

Absent == [k |-> "Absent"]

\* The value a read of name finds in the scopes sc, or Absent.
Lookup(sc, name) ==
    LET c == [scopes_ |-> sc]
    IN  IF FindVariable(c, name) = 0 THEN Absent ELSE ValueOf(c, name)

\* C9: a call binds each parameter in the scope pushed for the call and
\* leaves the caller's scopes as they were, also a variable of the caller
\* with the parameter's name; and the bindings an argument expression is
\* evaluated with are the caller's.
C9_ParametersBoundInCallScope ==
    [][(/\ Running
        /\ TopFrame.node.type \in CallTypes
        /\ status' = "running")
          => /\ TopFrame.pc = "args"
                => /\ SubSeq(scopes_', 1, TopFrame.depth)
                        = SubSeq(scopes_, 1, TopFrame.depth)
                   /\ Len(scopes_') > TopFrame.depth
                   /\ TopFrame.func.arg_names[TopFrame.i]
                        \in DOMAIN scopes_'[TopFrame.depth + 1]
             /\ (Len(stack') = Len(stack) + 1 /\ stack'[Len(stack)].pc = "args")
                => \A d \in 1..Len(scopes_') : \A name \in DOMAIN scopes_'[d] :
                       Lookup(scopes_', name)
                         = Lookup(SubSeq(scopes_', 1, TopFrame.depth), name)
      ]_vars

\* C10: a named call f(args) invokes a function exactly when the nearest
\* visible binding of f holds a Function at the time of the call; in every
\* other case it reports that the function is not found.
C10_NamedCallIffFunction ==
    [][(/\ Running
        /\ TopFrame.node.type = "FunctionCallNode"
        /\ TopFrame.pc = "start")
          => LET name == TopFrame.node.function_name
                 bound == Lookup(scopes_, name)
             IN  IF HoldsFunction(bound)
                 THEN Len(bound.f.arg_names) = Len(TopFrame.node.args)
                          => status' = "running"
                 ELSE /\ status' = "error"
                      /\ what' \in {"Function " \o name \o " not found",
                                    "Function '" \o name \o "' not found"}
      ]_vars

\* An assignment (=, +=, -=, *=, %=) to a variable completes in this step.
AssignStep ==
    /\ Running
    /\ TopFrame.node.type = "BinaryOperationNode"
    /\ TopFrame.node.operation \in AssignOperations
    /\ TopFrame.node.lhs.type = "VariableNode"
    /\ TopFrame.pc = "rhs"
    /\ status' # "error"

\* C11: an assignment of v to x updates the binding of x in the nearest scope
\* that already holds x and changes no other binding; when no scope holds x it
\* creates x in the top scope (the global scope, made on demand, when there is
\* none); a read of x that follows finds v.
C11_AssignmentUpdatesNearestHolder ==
    [][AssignStep =>
          LET x == TopFrame.node.lhs.name
              v == result_'
              d == FindVariable(Cur, x)
              depth == IF Len(scopes_) = 0 THEN 1 ELSE Len(scopes_)
              at == IF d # 0 THEN d ELSE depth
          IN  /\ Len(scopes_') = depth
              /\ \A e \in 1..depth :
                     DOMAIN scopes_'[e] =
                         (IF e <= Len(scopes_) THEN DOMAIN scopes_[e] ELSE {})
                         \cup (IF e = at THEN {x} ELSE {})
              /\ \A e \in 1..Len(scopes_) : \A n \in DOMAIN scopes_[e] :
                     (e # at \/ n # x) => scopes_'[e][n] = scopes_[e][n]
              /\ scopes_'[at][x] = v
              /\ Lookup(scopes_', x) = v]_vars

\* An assignment has updated i in an outer scope from inside a loop body.
C11_Witness ==
    /\ status = "running"
    /\ Len(scopes_) = 2
    /\ "i" \in DOMAIN scopes_[1]
    /\ "i" \notin DOMAIN scopes_[2]
    /\ scopes_[1]["i"] = NumV(1)

\* The conditions that coerce to true: a number other than 0 and a string
\* that is not empty.
Truthy(w) == w \in {"2", "\"a\""}

IsBound(name) == \E d \in 1..Len(scopes_) : name \in DOMAIN scopes_[d]

\* C12: an if statement executes exactly one branch, the then-block when the
\* condition coerces to true and the else-block (nothing when there is none)
\* otherwise; in an if/elseif/else chain closed by a single `end if` only
\* the block of the first true condition runs, the conditions after it are
\* not evaluated (the variables they assign are never bound), and the
\* statement after the chain runs.
C12_IfRunsOneBranch ==
    /\ code \in IfSources => status \notin {"error", "crashed"}
    /\ \A s \in DOMAIN IfChains :
         code = IfChains[s] =>
           /\ Truthy(s[1]) => ~IsBound("q") /\ ~IsBound("r")
           /\ Truthy(s[2]) => ~IsBound("r")
           /\ status = "done" =>
                out_ = (IF Truthy(s[1]) THEN <<"1", "5">>
                        ELSE IF Truthy(s[2]) THEN <<"2">>
                        ELSE IF Truthy(s[3]) THEN <<"3">> ELSE <<"4">>)
                       \o <<"9">>
    /\ \A s \in DOMAIN IfElseIfs :
         code = IfElseIfs[s] =>
           /\ Truthy(s[1]) => ~IsBound("q")
           /\ status = "done" =>
                out_ = (IF Truthy(s[1]) THEN <<"1">>
                        ELSE IF Truthy(s[2]) THEN <<"2">> ELSE <<>>)
                       \o <<"9">>
    /\ \A A \in Conditions :
         /\ code = IfThens[A] /\ status = "done" =>
              out_ = (IF Truthy(A) THEN <<"1">> ELSE <<>>) \o <<"9">>
         /\ code = IfElses[A] /\ status = "done" =>
              out_ = (IF Truthy(A) THEN <<"1">> ELSE <<"4", "5">>) \o <<"9">>

\* The chain whose third condition is the first true one has run: the first
\* two conditions were evaluated and only the third block was executed.
C12_Witness ==
    /\ code = IfChains["0", "0", "\"a\""]
    /\ status = "done"
    /\ out_ = <<"3", "9">>

\* ceil((b - a) / s) for a step s that points from a towards b.
Ceil(a, b, s) == (Abs(b - a) + Abs(s) - 1) \div Abs(s)

\* The lines println writes for a, a + s, ..., the k-th value first.
RECURSIVE Lines(_, _, _)
Lines(a, s, k) ==
    IF k = 0 THEN <<>>
    ELSE IntToString(a) \o <<"\n">> \o Lines(a + s, s, k - 1)

IsPrefix(u, v) == Len(u) <= Len(v) /\ SubSeq(v, 1, Len(u)) = u

\* C13: for integers a, b and a non-zero step s that points from a towards
\* b, `for i in range(a, b, s)` runs its body ceil((b - a) / s) times with i
\* bound to a, a + s, a + 2s, ... in that order, each strictly before b, and
\* the compound assignment of the body accumulates in the outer variable:
\* the loop writes the values in order and the count read after the loop is
\* the number of iterations.
C13_RangeLoopIterations ==
    \A e \in RangeLoops :
        code = e[2] =>
            LET r == e[1]
                count == Ceil(r[1], r[2], r[3])
                expected == Lines(r[1], r[3], count) \o IntToString(count)
            IN  /\ status \notin {"error", "crashed"}
                /\ IsPrefix(out_, expected)
                /\ status = "done" => out_ = expected
                /\ \A k \in 0..(count - 1) :
                      IF r[3] > 0 THEN r[1] + k * r[3] < r[2]
                      ELSE r[1] + k * r[3] > r[2]

\* The loop over range(-1, 3, 2) has run twice, for -1 and for 1.
C13_Witness ==
    /\ code = RangeLoop(-1, 3, 2)
    /\ status = "done"
    /\ out_ = <<"-", "1", "\n", "1", "\n", "2">>

\* The words of an expression's tree, from left to right.
RECURSIVE Flatten(_)
Flatten(node) ==
    CASE node.type = "BinaryOperationNode" ->
            Flatten(node.lhs) \o <<node.operation>> \o Flatten(node.rhs)
      [] node.type = "UnaryOperationNode" ->
            <<node.operation>> \o Flatten(node.arg)
      [] node.type = "VariableNode" -> <<node.name>>

\* o binds tighter than p: its left binding power is the higher one.
Tighter(o, p) ==
    kLeftBindingPower(Word(o).type) > kLeftBindingPower(Word(p).type)

SameLevel(o, p) ==
    kLeftBindingPower(Word(o).type) = kLeftBindingPower(Word(p).type)

\* The operators that group right to left.
RightToLeft(o) == o \in {"^", "=", "+=", "-=", "*=", "/=", "%=", "^="}

\* The tree groups as the table prescribes: an operand of a binary operator
\* that is itself a binary operation binds tighter, or is of the same level
\* and stands on the side the level groups to; the operand of a prefix
\* operator is never a binary operation.
RECURSIVE Prescribed(_)
Prescribed(node) ==
    CASE node.type = "BinaryOperationNode" ->
            /\ Prescribed(node.lhs)
            /\ Prescribed(node.rhs)
            /\ node.lhs.type = "BinaryOperationNode" =>
                 \/ Tighter(node.lhs.operation, node.operation)
                 \/ /\ SameLevel(node.lhs.operation, node.operation)
                    /\ ~RightToLeft(node.operation)
            /\ node.rhs.type = "BinaryOperationNode" =>
                 \/ Tighter(node.rhs.operation, node.operation)
                 \/ /\ SameLevel(node.rhs.operation, node.operation)
                    /\ RightToLeft(node.operation)
      [] node.type = "UnaryOperationNode" ->
            /\ node.arg.type # "BinaryOperationNode"
            /\ Prescribed(node.arg)
      [] OTHER -> TRUE

\* C14: for a line of atoms joined by binary operators, with prefix
\* operators in front of some atoms, ParseExpression builds the one tree
\* over these words in which an operator of higher left binding power binds
\* tighter, operators of one level group left to right except `^` and the
\* assignments, which group right to left, and a prefix operator binds
\* tighter than every binary operator.
C14_ExpressionTreeFollowsBindingPowers ==
    code \in ExpressionSources /\ status # "parsing" =>
        /\ Len(ast.statements) = 1
        /\ Flatten(ast.statements[1]) \o <<"\n">> =
               [n \in 1..Len(code) |-> code[n].value]
        /\ Prescribed(ast.statements[1])

\* -a ^ b ^ c is parsed as (-a) ^ (b ^ c).
C14_Witness ==
    /\ code = Words(<<"-", "a", "^", "b", "^", "c", "\n">>)
    /\ status # "parsing"
    /\ ast.statements[1] =
           BinaryOperationNode("^",
               UnaryOperationNode("-", VariableNode("a")),
               BinaryOperationNode("^", VariableNode("b"), VariableNode("c")))

Terminated == status \in {"done", "error", "crashed"}

\* What print writes for the list of the numbers lo, lo + step, ... up to hi.
RECURSIVE ListText(_, _, _)
ListText(lo, hi, step) ==
    IF lo > hi THEN <<"]">>
    ELSE IntToString(lo)
         \o (IF lo + step > hi THEN <<>> ELSE <<",", " ">>)
         \o ListText(lo + step, hi, step)

\* C15: for the list l = [1, ..., n] and an index i, l[i] is the element
\* l[n + i] when -n <= i < 0 and l[i] when 0 <= i < n, and an out-of-range
\* error is reported only for i >= n or i < -n.
C15_NegativeIndexCountsFromEnd ==
    \A e \in SliceSources :
        LET n == e[1][2]
            i == e[1][3][1]
        IN  e[1][1] = "list" /\ Len(e[1][3]) = 1 /\ code = e[2] /\ Terminated
            => IF -n <= i /\ i < n
               THEN /\ status = "done"
                    /\ out_ = IntToString(IF i < 0 THEN n + i + 1 ELSE i + 1)
               ELSE status = "error"

\* C16: for the list l = [1, ..., n] and 0 <= i <= j <= n, l[i:j] is the
\* list of the elements at i, ..., j - 1 in order: j - i elements, none when
\* i = j.
C16_SliceIsHalfOpen ==
    \A e \in SliceSources :
        LET i == e[1][3][1]
            j == e[1][3][2]
        IN  e[1][1] = "list" /\ Len(e[1][3]) = 2 /\ code = e[2] /\ Terminated
            => /\ status = "done"
               /\ out_ = <<"[">> \o ListText(i + 1, j, 1)

\* C17: for the list l = [1, ..., n], 0 <= i < j <= n and a step k,
\* l[i:j:k] terminates (the loop makes at most n turns and the allocation
\* never fails), reads only indices inside [0, n), and for k >= 1 is the
\* list of the elements at i, i + k, ... that are at most j - 1.
C17_StridedSliceStaysInside ==
    \A e \in SliceSources :
        LET n == e[1][2]
            i == e[1][3][1]
            j == e[1][3][2]
            k == e[1][3][3]
        IN  e[1][1] = "list" /\ Len(e[1][3]) = 3 /\ i < j /\ code = e[2]
            => /\ status \notin {"error", "crashed"}
               /\ status = "running" /\ Top(Cur).pc = "sublist" =>
                    /\ 0 <= Top(Cur).it /\ Top(Cur).it < n
                    /\ Len(Top(Cur).elements) < n
               /\ status = "done" /\ k >= 1 =>
                    out_ = <<"[">> \o ListText(i + 1, j, k)

Letters == <<"a", "b", "c", "d">>

\* C18: for the string s of the first n letters and 0 <= i <= j <= n,
\* s[i:j] is the substring of the characters at i, ..., j - 1, and s[i:j:k]
\* is the same substring for every k.
C18_StringSliceIsHalfOpen ==
    \A e \in SliceSources :
        LET n == e[1][2]
            i == e[1][3][1]
            j == e[1][3][2]
        IN  e[1][1] = "string" /\ code = e[2] /\ Terminated
            => /\ status = "done"
               /\ out_ = SubSeq(SubSeq(Letters, 1, n), i + 1, j)

\* "abc"[1:3:0] has been printed: bc.
C18_Witness ==
    /\ code = SliceSource(<<"string", 3, <<1, 3, 0>>>>)
    /\ status = "done"
    /\ out_ = <<"b", "c">>

\* C19: for a list l and a number n >= 0 that need not be whole, l * n is
\* a new list of floor(n * len(l)) elements, the i-th of them l[i mod
\* len(l)], and l is unchanged; for n < 0 an error is reported.  (n is
\* result_ / 2 before the step.)
C19_ListTimesNumber ==
    [][stack' # stack =>
         LET l == heap[1]
             twice == result_.n
         IN  IF twice < 0 THEN status' = "error"
             ELSE /\ status' = "running"
                  /\ heap'[1] = l
                  /\ result_' = ListV(2)
                  /\ Len(heap'[2]) = (twice * Len(l)) \div 2
                  /\ \A i \in 1..Len(heap'[2]) :
                        heap'[2][i] = l[((i - 1) % Len(l)) + 1]]_vars

\* The comparison op of two sizes.
SizeCompare(op, n, m) ==
    CASE op = "==" -> n = m
      [] op = "!=" -> n # m
      [] op = "<"  -> n < m
      [] op = ">"  -> n > m
      [] op = "<=" -> n <= m
      [] op = ">=" -> n >= m

\* C20: a comparison between two lists depends only on the two lists' sizes:
\* when a comparison node has evaluated both operands to lists, its result is
\* the comparison of their numbers of elements, so that two distinct lists
\* of the same size are equal and a < b exactly when len(a) < len(b).
C20_ListComparisonBySize ==
    [][(/\ Running /\ At("BinaryOperationNode") /\ Top(Cur).pc = "rhs"
        /\ Top(Cur).node.operation \in CompareOperations
        /\ Top(Cur).lhs.k = "List" /\ result_.k = "List")
       => result_' = Boolean(SizeCompare(Top(Cur).node.operation,
                                         Len(heap[Top(Cur).lhs.ptr]),
                                         Len(heap[result_.ptr])))]_vars

\* C21: for strings s and non-empty d held in variables, d neither at the
\* start nor at the end of s nor overlapping itself, the expression
\* join(split(s, d), d) == s evaluates to 1: the program that prints it
\* ends without an error and has written 1.
C21_JoinOfSplitIsSource ==
    \A e \in SplitJoins :
        code = e[2] /\ Terminated => status = "done" /\ out_ = <<"1">>

\* C22: strings are value-semantic under split, join, replace, lower, upper
\* and the string operators: while the program runs them on the string
\* variables s and d, on the alias t of s and on the list l of s and d, each
\* variable that is bound holds the string it was assigned.
C22_StringsKeepTheirValue ==
    \A e \in StringSources :
        code = e[2] /\ status # "parsing" /\ scopes_ # <<>> =>
            /\ \A v \in {"s", "t"} \cap DOMAIN scopes_[1] :
                   heap[scopes_[1][v].ptr] = e[1][1]
            /\ "d" \in DOMAIN scopes_[1] => heap[scopes_[1]["d"].ptr] = e[1][2]

\* C23: interpret returns true exactly when parsing and evaluation finish
\* without an error, and on the first error it stops and returns false, the
\* output being what the program had printed followed by one diagnostic and
\* a newline: a run ends with interpret returning (never in a crash); the
\* step that ends it in an error appends the diagnostic and a newline to the
\* output and leaves no handler to go on; a run that ends without an error
\* has written no diagnostic; and nothing changes once interpret has
\* returned.
C23_InterpretReportsFirstError ==
    [][/\ status' \in {"parsing", "running", "done", "error"}
       /\ status' = "error" =>
            /\ status # "error"
            /\ what' # ""
            /\ out_' = out_ \o <<what', "\n">>
            /\ stack' = <<>>
       /\ status' = "done" => what' = "" /\ stack' = <<>>
       /\ status \in {"done", "error"} => UNCHANGED vars]_vars

\* C24: the first token GetNextToken() or GetPeek() returns on a text that
\* starts with any mix of spaces and comments is the token behind them (the
\* EndLine that ends a line comment, EOF where nothing follows), and never
\* an Incorrect token.
C24_TokenBehindSpacesAndComments ==
    [][\A e \in LexSources :
           lexer.source_str_ = e[2] /\ lexer.token.type = "nullopt" =>
               lexer'.what = "" /\ lexer'.token.type = e[1]]_vars

C26_BlankLinesInBlocks ==
    \A e \in BlankLines :
        code = e[2] /\ status # "parsing" =>
            status # "error" /\ ast = ParseCode(e[1]).node

\* C27: in every state of the evaluator the scope stack and the stack of
\* function names have the same depth.
C27_ScopeStacksSameDepth == Len(scopes_) = Len(function_names_)

\* C28: a program that evaluates one unary operation on a call that prints
\* 1 never has printed more than one 1, and has printed one when it is done.
C28_UnaryOperandOnce ==
    code \in UnarySources =>
        /\ Len(out_) <= 1
        /\ status = "done" => out_ = <<"1">>

\* C29: every iteration of the scanning loop of split and of replace that is
\* followed by another one has made progress: split's start has moved on,
\* and what replace has left to scan behind position has become shorter.
C29_SplitAndReplaceProgress ==
    [][LET f == Top(Cur)
           g == stack'[Len(stack')]
       IN  /\ At("GlobalFunctionNode")
           /\ f.node.name \in {"split", "replace"}
           /\ f.pc = "find"
           /\ Len(stack') = Len(stack)
           => IF f.node.name = "split" THEN g.it > f.it
              ELSE \/ g.it = npos
                   \/ Len(g.elements[1]) - g.it < Len(f.elements[1]) - f.it]_vars

\* C30: nothing is evaluated and nothing written while the text is parsed,
\* and the only step of a run on a source with valid prints before what
\* does not parse is the one of interpret into the error: it leaves the
\* evaluator untouched and writes the diagnostic alone.
C30_ParsedBeforeEvaluated ==
    [][/\ status = "parsing" =>
            stack = <<>> /\ out_ = <<>> /\ heap = <<>> /\ scopes_ = <<>>
       /\ code \in PrintThenErrors =>
            /\ status = "parsing"
            /\ status' = "error"
            /\ what' # ""
            /\ out_' = <<what', "\n">>
            /\ stack' = <<>>
            /\ UNCHANGED <<result_, scopes_, function_names_, control_flow_,
                           heap, ast>>]_vars

\* A source of valid prints before a parse error has ended in the error.
C30_Witness ==
    /\ code \in PrintThenErrors
    /\ status = "error"
    /\ out_ = <<what, "\n">>

====
